---- MODULE Spec2Model ----
(***************************************************************************)
(* Model of the REST client of terraform-provider-rest                     *)
(* (internal/client/client.go): one RestClient built by NewRestClient and  *)
(* one Do call running executeWithRetry against an HTTP transport and a    *)
(* caller context that may be cancelled at any moment.                     *)
(*                                                                         *)
(* Units: timeouts are whole seconds; a backoff delay is a time.Duration,  *)
(* i.e. a signed 64-bit count of nanoseconds, kept as four 16-bit limbs    *)
(* (least significant first) so that the wrap-around of int64 arithmetic   *)
(* is computed exactly as the Go code computes it.                         *)
(***************************************************************************)
EXTENDS Integers, Sequences, FiniteSets, TLC

(***************************************************************************)
(* Bounds of the model.                                                    *)
(***************************************************************************)
\* largest per-call options.Retries drawn (0 means "not set")
SmallRetries == 2
\* the large provider-level retry_attempts value drawn for Config.RetryAttempts
LongRetries == 36
\* a provider-level timeout (seconds) below the default, and a per-call
\* timeout between the two
ShortTimeout == 10
CallTimeout == 20
\* time (seconds) a server takes to answer: at once, or after every time limit
FastReply == 1
SlowReply == 45

(***************************************************************************)
(* int64 arithmetic on 16-bit limbs (Go: time.Duration is an int64).       *)
(***************************************************************************)
Limb == 65536
LimbBits == 16
Byte == 256
HalfLimb == 32768
WordBits == 64

Zero64 == <<0, 0, 0, 0>>
One64 == <<1, 0, 0, 0>>

RECURSIVE Pow2(_)
Pow2(k) == IF k = 0 THEN 1 ELSE 2 * Pow2(k - 1)

\* a + b modulo 2^64
Add64(a, b) ==
    LET s1 == a[1] + b[1]
        s2 == a[2] + b[2] + (s1 \div Limb)
        s3 == a[3] + b[3] + (s2 \div Limb)
        s4 == a[4] + b[4] + (s3 \div Limb)
    IN  <<s1 % Limb, s2 % Limb, s3 % Limb, s4 % Limb>>

\* w << n as Go computes it for an int64 operand and an unsigned count:
\* bits shifted out are lost, and a count of 64 or more gives 0
Shl64(w, n) ==
    IF n >= WordBits THEN Zero64
    ELSE LET q == n \div LimbBits
             r == n % LimbBits
             \* limb j of w, 0 outside the word
             At(j) == IF j >= 1 /\ j <= 4 THEN w[j] ELSE 0
             Out(i) == (At(i - q) % Pow2(LimbBits - r)) * Pow2(r)
                       + (At(i - q - 1) \div Pow2(LimbBits - r))
         IN  <<Out(1), Out(2), Out(3), Out(4)>>

\* the eight bytes of w, least significant first
Bytes64(w) ==
    <<w[1] % Byte, w[1] \div Byte, w[2] % Byte, w[2] \div Byte,
      w[3] % Byte, w[3] \div Byte, w[4] % Byte, w[4] \div Byte>>

\* column k (1-based) of the schoolbook product of two byte strings
RECURSIVE ColSum(_, _, _, _)
ColSum(A, B, k, i) ==
    IF i > k THEN 0 ELSE A[i] * B[k + 1 - i] + ColSum(A, B, k, i + 1)

\* a * b modulo 2^64
Mul64(a, b) ==
    LET A == Bytes64(a)
        B == Bytes64(b)
        c1 == ColSum(A, B, 1, 1)
        c2 == ColSum(A, B, 2, 1) + (c1 \div Byte)
        c3 == ColSum(A, B, 3, 1) + (c2 \div Byte)
        c4 == ColSum(A, B, 4, 1) + (c3 \div Byte)
        c5 == ColSum(A, B, 5, 1) + (c4 \div Byte)
        c6 == ColSum(A, B, 6, 1) + (c5 \div Byte)
        c7 == ColSum(A, B, 7, 1) + (c6 \div Byte)
        c8 == ColSum(A, B, 8, 1) + (c7 \div Byte)
    IN  <<(c1 % Byte) + Byte * (c2 % Byte), (c3 % Byte) + Byte * (c4 % Byte),
          (c5 % Byte) + Byte * (c6 % Byte), (c7 % Byte) + Byte * (c8 % Byte)>>

\* the sign of the int64 value
IsNeg64(w) == w[4] >= HalfLimb

\* unsigned a > b
UGt64(a, b) ==
    \/ a[4] > b[4]
    \/ a[4] = b[4] /\ a[3] > b[3]
    \/ a[4] = b[4] /\ a[3] = b[3] /\ a[2] > b[2]
    \/ a[4] = b[4] /\ a[3] = b[3] /\ a[2] = b[2] /\ a[1] > b[1]

\* signed a > b
Gt64(a, b) ==
    IF IsNeg64(a) # IsNeg64(b) THEN IsNeg64(b) ELSE UGt64(a, b)

\* a small natural number as an int64
Int64(n) == <<n % Limb, n \div Limb, 0, 0>>

(***************************************************************************)
(* calculateBackoff (client.go:354-365).                                   *)
(***************************************************************************)
\* time.Second = 1000000000 ns = 0x3B9ACA00
baseDelay == <<51712, 15258, 0, 0>>
MaxDelaySeconds == 30
\* 30 * time.Second
maxDelay == Mul64(Int64(MaxDelaySeconds), baseDelay)

\* if delay > maxDelay { delay = maxDelay }
Capped(delay) == IF Gt64(delay, maxDelay) THEN maxDelay ELSE delay

\* (the shifted word and the product are bound once, then used)
calculateBackoff(attempt) ==
    CHOOSE d \in {Capped(delay) :
                    delay \in {Mul64(baseDelay, shifted) :
                                  shifted \in {Shl64(One64, attempt)}}} : TRUE

(***************************************************************************)
(* Status classification (client.go:389-400, 297).                         *)
(***************************************************************************)
\* variant: every error status is retried
IsRetryableStatusCode_AnyError(statusCode) == statusCode >= 400

IsRetryableStatusCode(statusCode) == statusCode \in {429, 500, 502, 503, 504}

\* variant: redirects count as success
IsSuccessStatus_Below400(statusCode) == statusCode >= 200 /\ statusCode < 400

IsSuccessStatus(statusCode) == statusCode >= 200 /\ statusCode < 300


(***************************************************************************)
(* Values.                                                                 *)
(***************************************************************************)
\* a nil *http.Response / *Response
NilResp == [StatusCode |-> 0, Body |-> "<nil>"]

\* a nil error
NilErr == [kind |-> "nil", attempt |-> -1, n |-> 0, wrap |-> "none"]

\* ctx.Err() of the cancelled caller context
CtxErr == [kind |-> "canceled", attempt |-> -1, n |-> 0, wrap |-> "none"]

\* an error returned by httpClient.Do on attempt a (n: the seconds after
\* which a time limit cut the attempt short, else 0)
TransportErr(k, a, secs) == [kind |-> k, attempt |-> a, n |-> secs, wrap |-> "none"]

\* fmt.Errorf("failed to read response body: %w", err)         (client.go:291)
BodyReadErr(a) == [kind |-> "bodyread", attempt |-> a, n |-> 0, wrap |-> "none"]

\* fmt.Errorf("received retryable status code %d", ...)         (client.go:315)
StatusErr(a, code) == [kind |-> "status", attempt |-> a, n |-> code, wrap |-> "none"]

\* fmt.Errorf("request failed after %d attempts: %w", retries, lastErr)
ExhaustedErr(cause) == [cause EXCEPT !.wrap = "exhausted"]

\* no request body has been put on the wire
NotSent == <<"-">>

Statuses == {200, 301, 400, 404, 429, 500, 502, 503, 504}
RespBodies == {"payload"}
ReqBodies == {<<>>, <<"b1", "b2">>}
ServerLatencies == {FastReply, SlowReply}

\* Config.RetryAttempts and Config.Timeout as the provider may hand them over
\* (provider.go:213-221: any int64, 0 when the zero value reaches the client)
Configs ==
    {[RetryAttempts |-> 0, Timeout |-> 0],
     [RetryAttempts |-> 0, Timeout |-> ShortTimeout],
     [RetryAttempts |-> -1, Timeout |-> 0],
     [RetryAttempts |-> LongRetries, Timeout |-> 0]}
\* RequestOptions.Retries / .Timeout (0: not set)
OptRetries == 0 .. SmallRetries
OptTimeouts == {0, CallTimeout}

(***************************************************************************)
(* NewRestClient (client.go:62-146): the defaults and the fields kept.     *)
(***************************************************************************)
DefaultTimeout == 30
DefaultRetryAttempts == 3

NewRestClient(config) ==
    LET t == IF config.Timeout = 0 THEN DefaultTimeout ELSE config.Timeout
        r == IF config.RetryAttempts = 0 THEN DefaultRetryAttempts
             ELSE config.RetryAttempts
    IN  [timeout |-> t, retries |-> r, httpTimeout |-> t]

(***************************************************************************)
(* Pieces of Do and executeWithRetry.                                      *)
(***************************************************************************)
\* client.go:191-194
DoTimeout(client, options) ==
    IF options.Timeout > 0 THEN options.Timeout ELSE client.timeout

\* client.go:197-200
DoRetries(client, options) ==
    IF options.Retries > 0 THEN options.Retries ELSE client.retries

\* The time an attempt may take: the attempt context's deadline
\* (client.go:251) and http.Client.Timeout (client.go:117-120) both apply,
\* whichever ends first.
AttemptLimit(client, t) ==
    IF client.httpTimeout > 0 /\ client.httpTimeout < t
    THEN client.httpTimeout ELSE t

\* req.Clone(attemptCtx) (client.go:254) copies the Body field shallowly:
\* the clone reads from the reader created once in Do (client.go:176-179),
\* at the position an earlier attempt left it.
ClonedBodyPos(pos) == pos

\* client.go:272, 301, 314
AttemptsRemain(a, r) == a < r - 1

\* variant: the context is not looked at after a failed httpClient.Do
CtxErrNonNil_Never(done) == FALSE

\* ctx.Err() != nil (client.go:267)
CtxErrNonNil(done) == done

\* variant: only the first error is kept
RecordErr_KeepFirst(old, new) == IF old.kind = "nil" THEN new ELSE old

\* lastErr = err (client.go:261, 291, 315)
RecordErr(old, new) == new

\* variant: the body read is not handed on
NewResponse_NoBody(httpResp, body) ==
    [StatusCode |-> httpResp.StatusCode, Body |-> "<nil>"]

\* client.go:332-337
NewResponse(httpResp, body) == [StatusCode |-> httpResp.StatusCode, Body |-> body]

\* the history after one more attempt that ended the way "how"
Ended(h, how) == IF h \in {"none", how} THEN how ELSE "mixed"

VARIABLES
    c,              \* the RestClient: [timeout, retries, httpTimeout]
    opts,           \* the RequestOptions of the call
    pc,             \* "idle", "send", "await", "read", "sleep", "done"
    retries,        \* executeWithRetry's parameter
    timeout,        \* executeWithRetry's parameter (seconds)
    attempt,        \* the loop variable
    ctxDone,        \* the caller's context is cancelled
    attemptCtxDone, \* cancel() of the attempt's context has run
    bodyPos,        \* read position of the request's body reader
    resp,           \* the *http.Response of the current attempt
    lastErr,        \* executeWithRetry's lastErr
    delay,          \* the backoff delay of the current / last sleep
    timerFired,     \* the time.After channel of the sleep is ready
    result,         \* what Do returned: [resp, err]
    \* observations, not read by the program
    nAttempts,      \* calls of httpClient.Do
    nSleeps,        \* backoff sleeps entered
    prevDelay,      \* the delay of the sleep before the current one
    wire,           \* the body of the last request written to the network
    outcome,        \* how the last attempt ended: "none" while it runs, else
                    \* "transport", "status" or "bodyread"
    history,        \* how the attempts so far ended: "none" yet, "transport"
                    \* (each with an error of httpClient.Do), "status" (each
                    \* with a response whose body was read), or "mixed"
    cancelledInRead \* the context was cancelled after the current attempt's
                    \* response had arrived

progVars == <<c, opts, pc, retries, timeout, attempt, ctxDone, attemptCtxDone,
              bodyPos, resp, lastErr, delay, timerFired, result>>
obsVars == <<nAttempts, nSleeps, prevDelay, wire, outcome, history,
             cancelledInRead>>

\* The drift comparator (internal/provider/rest_resource.go:882-1081).
VARIABLES
    dExpected,      \* the expected body (data.Body), a JSON document
    dCurrent,       \* the observed response body, a JSON document
    dIgnore,        \* the user's ignore_fields
    dReport,        \* what performDriftDetection came to: "unset", "skipped",
                    \* "raw", "computed", "nodrift", "drift" or "panic"
    cmpA,           \* the arguments of one valuesEqual call
    cmpB,
    cmpResult       \* its outcome: "unset", "true", "false" or "panic"

driftVars == <<dExpected, dCurrent, dIgnore, dReport, cmpA, cmpB, cmpResult>>

\* One rest_resource and its handlers (rest_resource.go:465-878).
VARIABLES
    resourceConfig, \* the resource block: the attributes the user wrote
    state,          \* the stored state of the resource (computed attributes)
    op,             \* the handler that runs or ran last: "none", "create",
                    \* "read", "update", "delete"
    rpc,            \* "idle", or "call" while the handler is in client.Do
    model,          \* the handler's `data` as read from the plan or the state
    request,        \* the RequestOptions handed to client.Do
    reqAttempt,     \* executeWithRetry's loop variable in that call
    lastResp,       \* the response (or error) client.Do returned last
    diags,          \* how the last handler ended: "none", "ok", "removed",
                    \* "error", "retryable" or "panic"
    now             \* the clock behind time.Now(), one tick per handler

resVars == <<resourceConfig, state, op, rpc, model, request, reqAttempt,
             lastResp, diags, now>>

\* Several Do calls on one RestClient (client.go:168-351).
VARIABLES
    clientConfig,   \* the client.Config NewRestClient was given
    restClient,     \* the *RestClient the calls share
    idleConns,      \* idle connections in the pool of the shared transport
    calls,          \* CallIds -> the locals of the call (Do and
                    \* executeWithRetry of one goroutine)
    alone           \* CallIds -> the locals the same call has when it runs
                    \* with the same inputs and no other call beside it

concVars == <<clientConfig, restClient, idleConns, calls, alone>>

\* terraform import of one rest_resource (rest_resource.go:745-773) and the
\* Read that follows it.
VARIABLES
    importID,       \* req.ID, a sequence of characters
    importState,    \* resp.State: the attributes endpoint, name, id, method
    importDiags,    \* "none", "ok" or "error" (resp.Diagnostics)
    readEndpoint    \* options.Endpoint of the Read after the import

importVars == <<importID, importState, importDiags, readEndpoint>>

\* The response_data of one response (rest_resource.go:397-430).
VARIABLES
    projBody,       \* response.Body
    projData,       \* data.ResponseData: key -> string
    projDiags       \* "none" before the call; then "ok" (processResponse
                    \* returned nil) or "error"

projVars == <<projBody, projData, projDiags>>

\* The provider's Configure (provider.go:124-290), NewRestClient with its TLS
\* setup (client.go:62-146, 403-455) and buildURL (client.go:207-230).
VARIABLES
    providerData,   \* <<>>, or <<the provider block Configure was given>>
    handedConfig,   \* <<>>, or <<the client.Config NewRestClient was given>>
    newClient,      \* <<>>, or <<the *RestClient NewRestClient returned>>
    newErr,         \* "none", or the error NewRestClient returned
    provDiags,      \* "none" before Configure; then "ok" or the summary of
                    \* the error diagnostic
    urlCall,        \* <<>>, or <<the endpoint and queryParams of buildURL>>
    urlResult       \* <<>>, or <<what buildURL returned>>

provVars == <<providerData, handedConfig, newClient, newErr, provDiags,
              urlCall, urlResult>>
otherVars == <<concVars, importVars, projVars, provVars>>
adapterVars == <<driftVars, resVars, otherVars>>
vars == <<progVars, obsVars, adapterVars>>

NoDoc == [t |-> "empty"]

DriftIdle ==
    /\ dExpected = NoDoc
    /\ dCurrent = NoDoc
    /\ dIgnore = {}
    /\ dReport = "unset"
    /\ cmpA = NoDoc
    /\ cmpB = NoDoc
    /\ cmpResult = "unset"

\* a types.List that is null
NullList == [null |-> TRUE, elems |-> {}]
List(elems) == [null |-> FALSE, elems |-> elems]

\* the resource block of the acceptance tests without its optional parts
\* (testAccRestResourceConfig): endpoint "/items", name "test"
Endpoint == "/items"
Name == "test"

BaseResource ==
    [Method |-> "null", CreateMethod |-> "null", ReadMethod |-> "null",
     UpdateMethod |-> "null", DeleteMethod |-> "null",
     Body |-> NoDoc, RetryAttempts |-> 0,
     ExpectedStatus |-> NullList, FailOnStatus |-> NullList,
     RetryOnStatus |-> NullList, OnSuccess |-> "null", OnFailure |-> "null",
     IgnoreFields |-> {}, DriftDetection |-> "null"]

NoState == [exists |-> FALSE]
NoRequest == [Method |-> "-", Retries |-> 0]
NoResponse == [err |-> FALSE, StatusCode |-> 0, Body |-> NoDoc, attempt |-> -1]

ResourceIdle ==
    /\ resourceConfig = BaseResource
    /\ state = NoState
    /\ op = "none"
    /\ rpc = "idle"
    /\ model = NoState
    /\ request = NoRequest
    /\ reqAttempt = 0
    /\ lastResp = NoResponse
    /\ diags = "none"
    /\ now = 0

CallIds == {1, 2}

\* the locals of a call that has not started
NoCall ==
    [pc |-> "idle", retries |-> 0, timeout |-> 0, attempt |-> 0,
     ctxDone |-> FALSE, lastErr |-> NilErr, delay |-> Zero64,
     result |-> [resp |-> NilResp, err |-> NilErr], nAttempts |-> 0]

ConcurrentIdle ==
    /\ clientConfig = [RetryAttempts |-> 0, Timeout |-> 0]
    /\ restClient = NewRestClient(clientConfig)
    /\ idleConns = 0
    /\ calls = [i \in CallIds |-> NoCall]
    /\ alone = [i \in CallIds |-> NoCall]

\* a types.String that is null, and one that holds the characters v
NullString == [null |-> TRUE, v |-> <<>>]
StringValue(v) == [null |-> FALSE, v |-> v]

\* a state no attribute of which is set
EmptyState == [a \in {"endpoint", "name", "id", "method"} |-> NullString]

ImportIdle ==
    /\ importID = <<>>
    /\ importState = EmptyState
    /\ importDiags = "none"
    /\ readEndpoint = NullString

ProjectIdle ==
    /\ projBody = NoDoc
    /\ projData = <<>>
    /\ projDiags = "none"

ProviderIdle ==
    /\ providerData = <<>>
    /\ handedConfig = <<>>
    /\ newClient = <<>>
    /\ newErr = "none"
    /\ provDiags = "none"
    /\ urlCall = <<>>
    /\ urlResult = <<>>

OtherIdle == ConcurrentIdle /\ ImportIdle /\ ProjectIdle /\ ProviderIdle

AdapterIdle == DriftIdle /\ ResourceIdle /\ OtherIdle

ClientInit ==
    /\ c \in {NewRestClient(config) : config \in Configs}
    /\ opts = [Body |-> <<>>, Timeout |-> 0, Retries |-> 0]
    /\ pc = "idle"
    /\ retries = 0
    /\ timeout = 0
    /\ attempt = 0
    /\ ctxDone = FALSE
    /\ attemptCtxDone = FALSE
    /\ bodyPos = 0
    /\ resp = NilResp
    /\ lastErr = NilErr
    /\ delay = Zero64
    /\ timerFired = FALSE
    /\ result = [resp |-> NilResp, err |-> NilErr]
    /\ nAttempts = 0
    /\ nSleeps = 0
    /\ prevDelay = Zero64
    /\ wire = NotSent
    /\ outcome = "none"
    /\ history = "none"
    /\ cancelledInRead = FALSE

Init == ClientInit /\ AdapterIdle

(***************************************************************************)
(* Control flow of executeWithRetry (client.go:246-351).                   *)
(***************************************************************************)
\* return r, e
Return(r, e) ==
    /\ pc' = "done"
    /\ result' = [resp |-> r, err |-> e]

\* the loop test "attempt < retries" for the value a of the loop variable;
\* le is lastErr at that moment (client.go:249, 350)
LoopTest(a, r, le) ==
    /\ attempt' = a
    /\ IF a < r
       THEN pc' = "send" /\ result' = result
       ELSE Return(NilResp, ExhaustedErr(le))

\* "continue": attempt++ and the loop test
Continue(le) == LoopTest(attempt + 1, retries, le)

\* the select on time.After(backoffDelay) and ctx.Done() is entered
\* (client.go:273-281, 302-308, 320-328); a timer of a delay <= 0 is ready
\* at once
EnterBackoff ==
    /\ pc' = "sleep"
    /\ \E backoffDelay \in {calculateBackoff(attempt)} :
           /\ delay' = backoffDelay
           /\ timerFired' = ~Gt64(backoffDelay, Zero64)
    /\ prevDelay' = delay
    /\ nSleeps' = nSleeps + 1
    /\ UNCHANGED <<attempt, result>>

NoBackoff == UNCHANGED <<delay, timerFired, prevDelay, nSleeps>>

\* httpClient.Do returned err (client.go:260-284)
OnTransportErr(err) ==
    /\ lastErr' = RecordErr(lastErr, err)
    /\ outcome' = "transport"
    /\ history' = Ended(history, "transport")
    /\ resp' = NilResp
    /\ IF CtxErrNonNil(ctxDone)
       THEN Return(NilResp, CtxErr) /\ NoBackoff /\ UNCHANGED attempt
       ELSE IF AttemptsRemain(attempt, retries)
            THEN EnterBackoff
            ELSE Continue(lastErr') /\ NoBackoff

(***************************************************************************)
(* Do (client.go:168-204): the request is built once, its body reader is   *)
(* created once, and executeWithRetry starts.                              *)
(***************************************************************************)
Do(options) ==
    /\ pc = "idle"
    /\ opts' = options
    /\ timeout' = DoTimeout(c, options)
    /\ retries' = DoRetries(c, options)
    /\ bodyPos' = 0
    /\ LoopTest(0, DoRetries(c, options), lastErr)
    /\ UNCHANGED <<c, ctxDone, attemptCtxDone, resp, lastErr, delay, timerFired>>
    /\ UNCHANGED obsVars
    /\ UNCHANGED adapterVars

DoCall ==
    \E b \in ReqBodies, t \in OptTimeouts, r \in OptRetries :
        Do([Body |-> b, Timeout |-> t, Retries |-> r])

(***************************************************************************)
(* One attempt (client.go:250-258): a fresh attempt context, the cloned    *)
(* request, httpClient.Do, cancel().  httpClient.Do is split where it      *)
(* suspends: StartAttempt ends when the request has been written (or Do    *)
(* has failed before writing it), AwaitResponse when Do returns.           *)
(***************************************************************************)
\* what the clone's body reader still holds
BodyLeft(body, pos) == SubSeq(body, pos + 1, Len(body))

\* Do fails before anything is written
FailBeforeWrite(kind) ==
    /\ OnTransportErr(TransportErr(kind, attempt, 0))
    /\ attemptCtxDone' = TRUE
    /\ UNCHANGED <<bodyPos, wire>>

StartAttempt ==
    /\ pc = "send"
    /\ nAttempts' = nAttempts + 1
    /\ UNCHANGED <<c, opts, retries, timeout, ctxDone, cancelledInRead>>
    /\ LET left == BodyLeft(opts.Body, ClonedBodyPos(bodyPos))
       IN  IF ctxDone
           THEN \* the transport looks at the context first and sends nothing
                FailBeforeWrite("canceled")
           ELSE \/ \* no connection (refused, DNS, unreachable)
                   FailBeforeWrite("refused")
                \/ \* Content-Length announces Len(Body) bytes but the reader
                   \* holds fewer: "http: ContentLength=n with Body length m"
                   /\ Len(left) # Len(opts.Body)
                   /\ FailBeforeWrite("bodylen")
                \/ \* the request is written; on a reused connection the
                   \* transport replaces a drained body by req.GetBody()
                   /\ pc' = "await"
                   /\ wire' = IF Len(left) = Len(opts.Body) THEN left ELSE opts.Body
                   /\ bodyPos' = Len(opts.Body)
                   /\ attemptCtxDone' = FALSE
                   /\ resp' = NilResp
                   /\ outcome' = "none"
                   /\ UNCHANGED <<attempt, lastErr, result, history>>
                   /\ NoBackoff
    /\ UNCHANGED adapterVars

AwaitResponse ==
    /\ pc = "await"
    /\ attemptCtxDone' = TRUE
    /\ UNCHANGED <<c, opts, retries, timeout, ctxDone, bodyPos, nAttempts, wire,
                   cancelledInRead>>
    /\ IF ctxDone
       THEN OnTransportErr(TransportErr("canceled", attempt, 0))
       ELSE \/ \* the server is slower than the attempt's time limit
               /\ \E l \in ServerLatencies : l > AttemptLimit(c, timeout)
               /\ OnTransportErr(TransportErr("timeout", attempt,
                                              AttemptLimit(c, timeout)))
            \/ \* the response headers arrive in time
               /\ \E l \in ServerLatencies : l <= AttemptLimit(c, timeout)
               /\ \E s \in Statuses, b \in RespBodies :
                      resp' = [StatusCode |-> s, Body |-> b]
               /\ pc' = "read"
               /\ UNCHANGED <<attempt, lastErr, result, outcome, history>>
               /\ NoBackoff
    /\ UNCHANGED adapterVars

(***************************************************************************)
(* io.ReadAll(resp.Body) and what follows it (client.go:286-348).          *)
(***************************************************************************)
ReadBodyOk ==
    /\ pc = "read"
    /\ UNCHANGED <<c, opts, retries, timeout, ctxDone, attemptCtxDone, bodyPos,
                   resp, nAttempts, wire, cancelledInRead>>
    /\ outcome' = "status"
    /\ history' = Ended(history, "status")
    /\ IF IsRetryableStatusCode(resp.StatusCode) /\ AttemptsRemain(attempt, retries)
       THEN /\ lastErr' = RecordErr(lastErr, StatusErr(attempt, resp.StatusCode))
            /\ EnterBackoff
       ELSE /\ Return(NewResponse(resp, resp.Body), NilErr)
            /\ UNCHANGED <<attempt, lastErr>>
            /\ NoBackoff
    /\ UNCHANGED adapterVars

ReadBodyFail ==
    /\ pc = "read"
    /\ UNCHANGED <<c, opts, retries, timeout, ctxDone, attemptCtxDone, bodyPos,
                   resp, nAttempts, wire, cancelledInRead>>
    /\ outcome' = "bodyread"
    /\ history' = "mixed"
    /\ lastErr' = RecordErr(lastErr, BodyReadErr(attempt))
    /\ IF IsSuccessStatus(resp.StatusCode)
       THEN Return(NilResp, lastErr') /\ UNCHANGED attempt /\ NoBackoff
       ELSE IF AttemptsRemain(attempt, retries)
            THEN EnterBackoff
            ELSE Continue(lastErr') /\ NoBackoff
    /\ UNCHANGED adapterVars

(***************************************************************************)
(* The backoff select (client.go:276-281, 303-308, 323-328): it takes a    *)
(* case that is ready, either one when both are.                           *)
(***************************************************************************)
sleepFrame == <<c, opts, retries, timeout, ctxDone, attemptCtxDone, bodyPos,
                resp, lastErr, delay, prevDelay>>

\* variant: the timer of a positive delay never becomes ready
TimerFire_Never ==
    /\ pc = "sleep"
    /\ ~timerFired
    /\ timerFired' = FALSE
    /\ UNCHANGED <<sleepFrame, pc, attempt, result>>
    /\ UNCHANGED obsVars
    /\ UNCHANGED adapterVars

\* the delay has passed
TimerFire ==
    /\ pc = "sleep"
    /\ ~timerFired
    /\ timerFired' = TRUE
    /\ UNCHANGED <<sleepFrame, pc, attempt, result>>
    /\ UNCHANGED obsVars
    /\ UNCHANGED adapterVars

\* case <-time.After(backoffDelay): continue
BackoffElapsed ==
    /\ pc = "sleep"
    /\ timerFired
    /\ Continue(lastErr)
    /\ UNCHANGED <<sleepFrame, timerFired>>
    /\ UNCHANGED obsVars
    /\ UNCHANGED adapterVars

\* case <-ctx.Done(): return nil, ctx.Err()
BackoffCancelled ==
    /\ pc = "sleep"
    /\ ctxDone
    /\ Return(NilResp, CtxErr)
    /\ UNCHANGED <<sleepFrame, timerFired, attempt>>
    /\ UNCHANGED obsVars
    /\ UNCHANGED adapterVars

(***************************************************************************)
(* The caller cancels its context while the call runs.                     *)
(***************************************************************************)
Cancel ==
    /\ pc \in {"send", "await", "read", "sleep"}
    /\ ~ctxDone
    /\ ctxDone' = TRUE
    /\ cancelledInRead' = (pc = "read")
    /\ UNCHANGED <<c, opts, pc, retries, timeout, attempt, attemptCtxDone,
                   bodyPos, resp, lastErr, delay, timerFired, result>>
    /\ UNCHANGED <<nAttempts, nSleeps, prevDelay, wire, outcome, history>>
    /\ UNCHANGED adapterVars

Next ==
    \/ DoCall
    \/ StartAttempt
    \/ AwaitResponse
    \/ ReadBodyOk
    \/ ReadBodyFail
    \/ TimerFire
    \/ BackoffElapsed
    \/ BackoffCancelled
    \/ Cancel

Spec == Init /\ [][Next]_vars

(***************************************************************************)
(* Properties.                                                             *)
(***************************************************************************)
\* the retryable status codes as the specification lists them
RetryableSet == {429, 500, 502, 503, 504}

\* the *Response that hands an http response on unchanged
AsIs(r) == [StatusCode |-> r.StatusCode, Body |-> r.Body]

\* C1: when every attempt so far received a response with a retryable status
\* and the next attempt (number k+1, k < retries) receives a non-retryable
\* one, the call returns that response with a nil error after exactly k+1
\* calls of httpClient.Do, one backoff sleep before each but the first.
C1_RetryThenSuccess ==
    /\ (outcome = "status" /\ history = "status"
            /\ resp.StatusCode \notin RetryableSet)
        => /\ pc = "done"
           /\ result = [resp |-> AsIs(resp), err |-> NilErr]
           /\ attempt < retries
           /\ nAttempts = attempt + 1
           /\ nSleeps = attempt
    /\ (pc \in {"await", "read"} /\ history \in {"none", "status"})
        => /\ nAttempts = attempt + 1
           /\ nSleeps = attempt

\* 503, 503, 200 with retries = 3: a 200 response after exactly 3 attempts
C1_Witness ==
    /\ pc = "done"
    /\ retries = 3
    /\ history = "status"
    /\ lastErr = StatusErr(1, 503)
    /\ result = [resp |-> [StatusCode |-> 200, Body |-> "payload"], err |-> NilErr]
    /\ nAttempts = 3

\* C2: when each of the `retries` attempts received a retryable status, the
\* call returns a non-nil error that carries the last status, and no
\* Response.
C2_ExhaustedIsError ==
    (pc = "done" /\ history = "status" /\ outcome = "status"
        /\ nAttempts = retries /\ resp.StatusCode \in RetryableSet)
    => /\ result.err # NilErr
       /\ result.err.n = resp.StatusCode
       /\ result.resp = NilResp

\* C3: every attempt starts with a body reader at the start of the original
\* body, every request written carries the whole body, and no attempt fails
\* because an earlier one consumed the body.
C3_FreshBodyEachAttempt ==
    /\ pc = "send" => BodyLeft(opts.Body, ClonedBodyPos(bodyPos)) = opts.Body
    /\ wire \in {NotSent, opts.Body}
    /\ lastErr.kind # "bodylen"

\* C4: when every attempt failed with an error of httpClient.Do and the
\* context was never cancelled, the call made exactly `retries` attempts and
\* returned one error, with no response, that wraps the error of the final
\* attempt.
C4_TransportExhaustion ==
    (pc = "done" /\ history = "transport" /\ ~ctxDone)
    => /\ nAttempts = retries
       /\ result.resp = NilResp
       /\ result.err.wrap = "exhausted"
       /\ result.err.kind \in {"refused", "timeout", "bodylen"}
       /\ result.err.attempt = retries - 1
       /\ result.err = ExhaustedErr(lastErr)

\* three failing attempts with retries = 3, the last one a timeout
C4_Witness ==
    /\ pc = "done"
    /\ history = "transport"
    /\ ~ctxDone
    /\ retries = 3
    /\ nAttempts = 3
    /\ result.err.wrap = "exhausted"
    /\ result.err.kind = "timeout"
    /\ result.err.attempt = 2

\* C5, as claimed: once the caller's context is cancelled no further request
\* is written, a backoff sleep that is still pending is not waited out, and
\* whatever the call returns is the cancellation error.
C5_CancelAlwaysWins ==
    [][ctxDone =>
          /\ ~(pc = "send" /\ pc' = "await")
          /\ (pc = "sleep" /\ ~timerFired /\ pc' # "sleep") => pc' = "done"
          /\ (pc # "done" /\ pc' = "done") => result'.err = CtxErr]_vars

\* C5, amended: as above, but a cancellation that arrives after the response
\* of the current attempt has been received may still be followed by the
\* return of that response, or of the body-read or exhaustion error of that
\* attempt.
C5_CancelPriority ==
    [][ctxDone =>
          /\ ~(pc = "send" /\ pc' = "await")
          /\ (pc = "sleep" /\ ~timerFired /\ pc' # "sleep") => pc' = "done"
          /\ (pc # "done" /\ pc' = "done" /\ ~cancelledInRead)
                => result' = [resp |-> NilResp, err |-> CtxErr]]_vars

\* cancelled during the first backoff sleep, two attempts still to go: the
\* call has returned the cancellation error before the delay passed
C5_Witness ==
    /\ pc = "done"
    /\ ctxDone
    /\ ~cancelledInRead
    /\ retries = 3
    /\ attempt = 0
    /\ nSleeps = 1
    /\ ~timerFired
    /\ nAttempts = 1
    /\ result = [resp |-> NilResp, err |-> CtxErr]

\* C6: a response whose body was read and whose status is not retryable
\* ends the call on that attempt: the status and body are returned unchanged
\* with a nil error, with no backoff and no attempt after it.
C6_NonRetryableEnds ==
    (outcome = "status" /\ resp.StatusCode \notin RetryableSet)
    => /\ pc = "done"
       /\ result = [resp |-> AsIs(resp), err |-> NilErr]
       /\ nAttempts = attempt + 1
       /\ nSleeps = attempt

\* a 404 received by the first of three attempts is returned at once
C6_Witness ==
    /\ pc = "done"
    /\ retries = 3
    /\ attempt = 0
    /\ nAttempts = 1
    /\ nSleeps = 0
    /\ resp.StatusCode = 404
    /\ result = [resp |-> [StatusCode |-> 404, Body |-> "payload"], err |-> NilErr]

\* C7: when reading the response body fails, a 2xx status ends the call at
\* once with the body-read error (no backoff, no further attempt); any other
\* status is handled as a retryable failure: a backoff of calculateBackoff
\* and then the next attempt while attempts remain, the exhaustion error
\* wrapping the body-read error otherwise.
C7_BodyReadFailure ==
    [][/\ (pc = "read" /\ outcome' = "bodyread") =>
            IF resp.StatusCode \in 200..299
            THEN /\ pc' = "done"
                 /\ result' = [resp |-> NilResp, err |-> BodyReadErr(attempt)]
                 /\ nSleeps' = nSleeps
            ELSE IF attempt < retries - 1
            THEN /\ pc' = "sleep"
                 /\ delay' = calculateBackoff(attempt)
                 /\ nSleeps' = nSleeps + 1
                 /\ attempt' = attempt
            ELSE /\ pc' = "done"
                 /\ result' = [resp |-> NilResp,
                               err |-> ExhaustedErr(BodyReadErr(attempt))]
                 /\ nSleeps' = nSleeps
       /\ (pc = "sleep" /\ pc' = "send") =>
            attempt' = attempt + 1 /\ attempt' < retries]_vars

\* the body of a 404 response could not be read on the first attempt; the
\* backoff is over and the second attempt is about to start
C7_Witness ==
    /\ pc = "send"
    /\ attempt = 1
    /\ outcome = "bodyread"
    /\ resp.StatusCode = 404
    /\ lastErr = BodyReadErr(0)
    /\ nSleeps = 1

\* min(30, 2^i) seconds, as a Duration (2^5 already exceeds 30)
ExpectedBackoff(i) ==
    Mul64(Int64(IF i >= 5 THEN 30 ELSE Pow2(i)), baseDelay)

\* C8: the delay of the backoff after attempt i is min(30s, 1s * 2^i) for
\* every attempt index the retry count lets the loop reach; it is positive
\* and at most 30s.
C8_BackoffFormula ==
    pc = "sleep" =>
        /\ delay = ExpectedBackoff(attempt)
        /\ Gt64(delay, Zero64)
        /\ ~Gt64(delay, Mul64(Int64(30), baseDelay))

\* an attempt that the retry loop treats as failed
FailedAttempt ==
    \/ outcome = "transport"
    \/ outcome = "bodyread" /\ resp.StatusCode \notin 200..299
    \/ outcome = "status" /\ resp.StatusCode \in RetryableSet

\* C9 without what it says about the size of the delays: while the context
\* is not cancelled, a failed attempt i < retries-1 is followed by exactly
\* one sleep of calculateBackoff(i) and one further attempt, and the final
\* attempt by none.
OneSleepPerFailedAttempt ==
    ~ctxDone =>
        /\ pc = "sleep" =>
              /\ FailedAttempt
              /\ attempt < retries - 1
              /\ nSleeps = attempt + 1
              /\ nAttempts = attempt + 1
              /\ delay = calculateBackoff(attempt)
        /\ pc \in {"await", "read"} =>
              /\ nAttempts = attempt + 1
              /\ nSleeps = attempt
        /\ (pc = "done" /\ FailedAttempt) => attempt >= retries - 1
        /\ (pc = "done" /\ retries >= 1) => nSleeps <= retries - 1

\* C9: as above, and the delays of successive sleeps are positive and
\* non-decreasing.
C9_BackoffSchedule ==
    /\ OneSleepPerFailedAttempt
    /\ (~ctxDone /\ pc = "sleep") =>
          /\ Gt64(delay, Zero64)
          /\ nSleeps > 1 => ~Gt64(prevDelay, delay)

\* C10: an attempt is cut short by its time limit only after the per-call
\* timeout when one is set (options.Timeout > 0), after the client's default
\* timeout otherwise.
C10_AttemptTimeLimit ==
    lastErr.kind = "timeout" =>
        lastErr.n = (IF opts.Timeout > 0 THEN opts.Timeout ELSE c.timeout)

(***************************************************************************)
(* JSON values as encoding/json decodes them into interface{}              *)
(* (rest_resource.go:902-903, 937-939): nil, string, bool, float64,        *)
(* map[string]interface{} and []interface{}; valuesEqual also accepts int. *)
(* A number is a sign and a magnitude: the magnitude of an int is the      *)
(* integer, that of a float64 and of a JSON number literal is twice the    *)
(* value, so that halves are exact; magnitudes are four 16-bit limbs.      *)
(***************************************************************************)
MantissaBits == 53

RECURSIVE BitLen16(_)
BitLen16(n) == IF n = 0 THEN 0 ELSE 1 + BitLen16(n \div 2)

\* number of significant bits of a magnitude
BitLen(w) ==
    IF w[4] # 0 THEN 3 * LimbBits + BitLen16(w[4])
    ELSE IF w[3] # 0 THEN 2 * LimbBits + BitLen16(w[3])
    ELSE IF w[2] # 0 THEN LimbBits + BitLen16(w[2])
    ELSE BitLen16(w[1])

\* w >> n for 0 <= n < LimbBits
Shr64(w, n) ==
    LET lo == Pow2(n)
        hi == Pow2(LimbBits - n)
    IN  << (w[1] \div lo) + (w[2] % lo) * hi,
           (w[2] \div lo) + (w[3] % lo) * hi,
           (w[3] \div lo) + (w[4] % lo) * hi,
           w[4] \div lo >>

\* the float64 nearest to a magnitude: 53 significant bits, ties to even
RoundToFloat64(w) ==
    IF BitLen(w) <= MantissaBits THEN w
    ELSE LET n == BitLen(w) - MantissaBits
             q == Shr64(w, n)
             rem == w[1] % Pow2(n)
             half == Pow2(n - 1)
             up == rem > half \/ (rem = half /\ q[1] % 2 = 1)
         IN  Shl64(IF up THEN Add64(q, One64) ELSE q, n)

Nil == [t |-> "nil"]
String(str) == [t |-> "string", s |-> str]
Bool(v) == [t |-> "bool", b |-> v]
Float64(neg, twice) == [t |-> "float64", neg |-> neg, mag |-> twice]
GoInt(neg, mag) == [t |-> "int", neg |-> neg, mag |-> mag]
Map(m) == [t |-> "map", m |-> m]
Slice(a) == [t |-> "slice", a |-> a]

\* float64(bNum) for an int (rest_resource.go:1067, 1072)
ToFloat64(i) == Float64(i.neg, Shl64(RoundToFloat64(i.mag), 1))

\* aNum == bNum on float64
Float64Eq(x, y) == x.mag = y.mag /\ (x.neg = y.neg \/ x.mag = Zero64)

Outcome(v) == IF v THEN "true" ELSE "false"

\* a == b on interface{} values (rest_resource.go:1080): different dynamic
\* types are unequal; equal dynamic types that are not comparable (map,
\* slice) make the comparison panic
InterfaceEq(x, y) ==
    IF x.t # y.t THEN "false"
    ELSE IF x.t \in {"map", "slice"} THEN "panic"
    ELSE Outcome(x = y)

valuesEqual_IntNeverFloat(x, y) ==
    IF x.t = "nil" /\ y.t = "nil" THEN "true"
    ELSE IF x.t = "nil" \/ y.t = "nil" THEN "false"
    ELSE IF x.t = "float64" /\ y.t = "float64" THEN Outcome(Float64Eq(x, y))
    ELSE IF x.t = "float64" /\ y.t = "int" THEN Outcome(Float64Eq(x, ToFloat64(y)))
    ELSE InterfaceEq(x, y)

valuesEqual(x, y) ==
    IF x.t = "nil" /\ y.t = "nil" THEN "true"
    ELSE IF x.t = "nil" \/ y.t = "nil" THEN "false"
    ELSE IF x.t = "float64" /\ y.t = "float64" THEN Outcome(Float64Eq(x, y))
    ELSE IF x.t = "float64" /\ y.t = "int" THEN Outcome(Float64Eq(x, ToFloat64(y)))
    ELSE IF x.t = "int" /\ y.t = "float64" THEN Outcome(Float64Eq(ToFloat64(x), y))
    ELSE IF x.t = "int" /\ y.t = "int" THEN Outcome(x.neg = y.neg /\ x.mag = y.mag)
    ELSE InterfaceEq(x, y)

(***************************************************************************)
(* JSON documents (the text of a body) and json.Unmarshal.  A document is  *)
(* "empty" (no bytes), "text" (not JSON), or a JSON value: null, string,   *)
(* bool, number (a literal, e.g. 1 and 1.0 are different literals of the   *)
(* same value), array, object.                                             *)
(***************************************************************************)
JNull == [t |-> "null"]
JString(str) == [t |-> "jstring", s |-> str]
JBool(v) == [t |-> "jbool", b |-> v]
JNumber(neg, twice, form) == [t |-> "number", neg |-> neg, mag |-> twice, form |-> form]
JArray(a) == [t |-> "array", a |-> a]
JObject(m) == [t |-> "object", m |-> m]
JText(str) == [t |-> "text", s |-> str]

\* json.Unmarshal into interface{}
RECURSIVE Decode(_)
Decode(doc) ==
    CASE doc.t = "null" -> Nil
      [] doc.t = "jstring" -> String(doc.s)
      [] doc.t = "jbool" -> Bool(doc.b)
      [] doc.t = "number" -> Float64(doc.neg, RoundToFloat64(doc.mag))
      [] doc.t = "array" -> Slice([i \in DOMAIN doc.a |-> Decode(doc.a[i])])
      [] doc.t = "object" -> Map([k \in DOMAIN doc.m |-> Decode(doc.m[k])])

\* json.Unmarshal(body, &m) with m a nil map[string]interface{}: an object
\* fills the map, null leaves it nil, anything else is an error
UnmarshalMap(doc) ==
    CASE doc.t = "object" -> [err |-> FALSE, m |-> Decode(doc).m]
      [] doc.t = "null" -> [err |-> FALSE, m |-> <<>>]
      [] OTHER -> [err |-> TRUE, m |-> <<>>]

(***************************************************************************)
(* compareStructuredData (rest_resource.go:963-1009).  The loop ranges     *)
(* over the keys of `expected` in any order and never leaves early, so its *)
(* result is the disjunction over the keys, and it panics when the         *)
(* comparison of any key panics.  The outcome is "true", "false" (the      *)
(* returned driftDetected) or "panic".                                     *)
(***************************************************************************)
RECURSIVE compareStructuredData(_, _, _)
compareStructuredData(expected, current, ignoreFields) ==
    LET Field(key) ==
            IF key \in ignoreFields THEN "false"
            ELSE IF key \notin DOMAIN current THEN "true"
            ELSE LET eq == valuesEqual(expected[key], current[key])
                     nested ==
                         IF expected[key].t = "map" /\ current[key].t = "map"
                         THEN compareStructuredData(expected[key].m,
                                                    current[key].m, ignoreFields)
                         ELSE "false"
                 IN  IF eq = "panic" \/ nested = "panic" THEN "panic"
                     ELSE IF eq = "false" \/ nested = "true" THEN "true"
                     ELSE "false"
        fields == {Field(key) : key \in DOMAIN expected}
    IN  IF "panic" \in fields THEN "panic"
        ELSE IF "true" \in fields THEN "true"
        ELSE "false"

(***************************************************************************)
(* performDriftDetection (rest_resource.go:882-960): what it came to.      *)
(* driftDetection is "null", "true" or "false"; body is data.Body (NoDoc when  *)
(* null or ""); respBody is response.Body.                                 *)
(***************************************************************************)
defaultIgnoreFields ==
    {"id", "created_at", "updated_at", "last_modified", "etag",
     "version", "revision", "timestamp", "last_updated_at",
     "created_by", "updated_by", "modified_by", "owner_id",
     "_id", "_created", "_updated", "_modified", "_version",
     "createdAt", "updatedAt", "lastModified", "lastUpdated",
     "href", "self", "links", "_links", "meta", "_meta"}

IgnoreSet_UserOnly(userIgnoreFields) == userIgnoreFields

IgnoreSet(userIgnoreFields) == defaultIgnoreFields \cup userIgnoreFields

performDriftDetection(driftDetection, userIgnoreFields, body, respBody) ==
    IF driftDetection = "false" THEN "skipped"
    ELSE IF respBody.t = "empty" THEN "skipped"
    ELSE IF UnmarshalMap(respBody).err THEN "skipped"
    ELSE IF body.t = "empty" THEN "computed"
    ELSE IF UnmarshalMap(body).err THEN "raw"
    ELSE LET driftDetected ==
                 compareStructuredData(UnmarshalMap(body).m,
                                       UnmarshalMap(respBody).m,
                                       IgnoreSet(userIgnoreFields))
         IN  CASE driftDetected = "panic" -> "panic"
               [] driftDetected = "true" -> "drift"
               [] driftDetected = "false" -> "nodrift"

(***************************************************************************)
(* Inputs of the comparator.                                               *)
(***************************************************************************)
TwoTo53 == Shl64(One64, MantissaBits)

ScalarDocs ==
    {JString("John"), JString("Jane"), JNull,
     JNumber(FALSE, Int64(2), "int"), JNumber(FALSE, Int64(2), "frac"),
     JNumber(FALSE, Int64(3), "frac")}

FlatKeys == {"name", "count", "id"}

FlatDocs == {JObject(m) : m \in UNION {[K -> ScalarDocs] : K \in SUBSET FlatKeys}}

NestedObj(x, stamp) ==
    JObject([k \in {"a"} |->
        JObject([j \in {"x", "updated_at"} |->
            IF j = "x" THEN JNumber(FALSE, Int64(2 * x), "int") ELSE JString(stamp)])])

Tags(tag) == JObject([k \in {"tags"} |-> JArray(<<JString(tag)>>)])

NestedDocs ==
    {NestedObj(1, "t1"), NestedObj(1, "t2"), NestedObj(2, "t1"),
     Tags("a"), Tags("b"),
     JObject([k \in {"a"} |-> JString("flat")]),
     JObject([k \in {"tags"} |-> JString("flat")])}

OtherDocs == {NoDoc, JText("not json"), JArray(<<JString("a")>>)}

UserIgnoreSets == {{}, {"count"}}

NumberValues ==
    {GoInt(FALSE, Zero64), GoInt(FALSE, One64), GoInt(TRUE, One64),
     GoInt(FALSE, Int64(2)),
     GoInt(FALSE, TwoTo53), GoInt(FALSE, Add64(TwoTo53, One64)),
     GoInt(FALSE, Add64(TwoTo53, Int64(2))), GoInt(FALSE, Add64(TwoTo53, Int64(3))),
     Float64(FALSE, Zero64), Float64(FALSE, Int64(2)), Float64(TRUE, Int64(2)),
     Float64(FALSE, Int64(3)), Float64(FALSE, Int64(4)),
     Float64(FALSE, Shl64(TwoTo53, 1)),
     Float64(FALSE, Shl64(Add64(TwoTo53, Int64(2)), 1)),
     Float64(FALSE, Shl64(Add64(TwoTo53, Int64(4)), 1))}

OtherValues ==
    {Nil, String("1"), Bool(TRUE), Map(<<>>), Slice(<<>>),
     Slice(<<String("a")>>), Map([k \in {"x"} |-> Nil])}

(***************************************************************************)
(* The comparator on its own: one comparison of two bodies, or of two      *)
(* values, in each behaviour.                                              *)
(***************************************************************************)
DriftInit == ClientInit /\ AdapterIdle /\ c = NewRestClient([RetryAttempts |-> 0, Timeout |-> 0])

\* nothing has been compared yet
Fresh == dReport = "unset" /\ cmpResult = "unset"

DetectDrift(body, respBody, userIgnoreFields) ==
    /\ dExpected' = body
    /\ dCurrent' = respBody
    /\ dIgnore' = userIgnoreFields
    /\ dReport' = performDriftDetection("null", userIgnoreFields, body, respBody)
    /\ UNCHANGED <<cmpA, cmpB, cmpResult>>
    /\ UNCHANGED <<progVars, obsVars, resVars, otherVars>>

DetectDriftFlat ==
    /\ Fresh
    /\ \E body \in FlatDocs, respBody \in FlatDocs, ig \in UserIgnoreSets :
        DetectDrift(body, respBody, ig)

DetectDriftNested ==
    /\ Fresh
    /\ \E body \in NestedDocs \cup OtherDocs, respBody \in NestedDocs \cup OtherDocs,
       ig \in UserIgnoreSets :
        DetectDrift(body, respBody, ig)

ValuesEqual ==
    /\ Fresh
    /\ \E x \in NumberValues \cup OtherValues, y \in NumberValues \cup OtherValues :
        /\ cmpA' = x
        /\ cmpB' = y
        /\ cmpResult' = valuesEqual(x, y)
        /\ UNCHANGED <<dExpected, dCurrent, dIgnore, dReport>>
        /\ UNCHANGED <<progVars, obsVars, resVars, otherVars>>

DriftNext == DetectDriftFlat \/ DetectDriftNested \/ ValuesEqual

DriftSpec == DriftInit /\ [][DriftNext]_vars

(***************************************************************************)
(* Properties of the drift comparator.                                     *)
(***************************************************************************)
Compared == dReport # "unset"

IsObject(doc) == doc.t = "object"

IsFlat(doc) ==
    /\ IsObject(doc)
    /\ \A k \in DOMAIN doc.m : doc.m[k].t \in {"null", "jstring", "jbool", "number"}

\* two scalars of JSON are the same value (1 and 1.0 are)
SameScalar(x, y) ==
    /\ x.t = y.t
    /\ CASE x.t = "number" -> x.mag = y.mag /\ (x.neg = y.neg \/ x.mag = Zero64)
         [] x.t = "jstring" -> x.s = y.s
         [] x.t = "jbool" -> x.b = y.b
         [] OTHER -> TRUE

SomeDefaultIgnored == {"id", "created_at"}

\* C12: for flat maps of scalars, drift is reported if and only if some key
\* of `expected` outside the ignore set (the user's names and the default
\* ones such as id, created_at) is absent from `observed` or has an unequal
\* value there; keys that only `observed` has play no part.
C12_FlatDrift ==
    (Compared /\ IsFlat(dExpected) /\ IsFlat(dCurrent)) =>
        /\ dReport \in {"drift", "nodrift"}
        /\ dReport = "drift" <=>
               \E k \in DOMAIN dExpected.m \ (dIgnore \cup SomeDefaultIgnored) :
                   \/ k \notin DOMAIN dCurrent.m
                   \/ ~SameScalar(dExpected.m[k], dCurrent.m[k])

\* no drift although `id` differs and `observed` has a key of its own
C12_Witness ==
    /\ Compared /\ IsFlat(dExpected) /\ IsFlat(dCurrent)
    /\ dReport = "nodrift"
    /\ "name" \in DOMAIN dExpected.m
    /\ "id" \in DOMAIN dExpected.m /\ "id" \in DOMAIN dCurrent.m
    /\ ~SameScalar(dExpected.m["id"], dCurrent.m["id"])
    /\ "count" \in DOMAIN dCurrent.m \ DOMAIN dExpected.m

\* a decoded value without the ignored keys, at every depth
RECURSIVE Strip(_, _)
Strip(v, ignored) ==
    CASE v.t = "map" ->
             Map([k \in DOMAIN v.m \ ignored |-> Strip(v.m[k], ignored)])
      [] v.t = "slice" -> Slice([i \in DOMAIN v.a |-> Strip(v.a[i], ignored)])
      [] OTHER -> v

\* C13: when expected and observed differ only in the values of ignored
\* keys, at whatever depth those keys sit, no drift is reported.
C13_IgnoredAtEveryDepth ==
    (/\ Compared /\ IsObject(dExpected) /\ IsObject(dCurrent)
     /\ DOMAIN dExpected.m = DOMAIN dCurrent.m
     /\ Strip(Decode(dExpected), dIgnore \cup SomeDefaultIgnored \cup {"updated_at"})
          = Strip(Decode(dCurrent), dIgnore \cup SomeDefaultIgnored \cup {"updated_at"}))
        => dReport = "nodrift"

HoldsNested(doc) ==
    IsObject(doc) /\ \E k \in DOMAIN doc.m : doc.m[k].t \in {"object", "array"}

\* C14: an expected key that holds a nested object or an array and whose
\* observed value is structurally equal causes no drift; two nested objects
\* that differ in a leaf that is not ignored are drift.
C14_NestedAndArrays ==
    /\ (/\ Compared /\ HoldsNested(dExpected) /\ IsObject(dCurrent)
        /\ Decode(dExpected) = Decode(dCurrent)) => dReport = "nodrift"
    /\ (/\ Compared /\ dExpected = NestedObj(1, "t1")
        /\ dCurrent = NestedObj(2, "t1")) => dReport = "drift"

IsNumber(v) == v.t \in {"int", "float64"}

\* the number a value stands for: its sign and twice its magnitude
NumValue(v) ==
    LET twice == IF v.t = "int" THEN Shl64(v.mag, 1) ELSE v.mag
    IN  <<v.neg /\ twice # Zero64, twice>>

IntAndFloat ==
    /\ cmpResult # "unset"
    /\ IsNumber(cmpA) /\ IsNumber(cmpB)
    /\ cmpA.t # cmpB.t

TheInt == IF cmpA.t = "int" THEN cmpA ELSE cmpB

CountIsOneVsOnePointZero ==
    /\ dExpected = JObject([k \in {"count"} |-> JNumber(FALSE, Int64(2), "int")])
    /\ dCurrent = JObject([k \in {"count"} |-> JNumber(FALSE, Int64(2), "frac")])

IsSet(v) == v \notin {"null", "unknown"}

resolveMethodForOperation_LegacyFirst(data, operation) ==
    IF IsSet(data.Method) THEN data.Method
    ELSE CASE operation = "create" ->
                  IF IsSet(data.CreateMethod) THEN data.CreateMethod ELSE "POST"
           [] operation = "read" ->
                  IF IsSet(data.ReadMethod) THEN data.ReadMethod ELSE "GET"
           [] operation = "update" ->
                  IF IsSet(data.UpdateMethod) THEN data.UpdateMethod ELSE "PUT"
           [] operation = "delete" ->
                  IF IsSet(data.DeleteMethod) THEN data.DeleteMethod ELSE "DELETE"
           [] OTHER -> "GET"

\* rest_resource.go:1085-1140
resolveMethodForOperation(data, operation) ==
    CASE operation = "create" ->
             IF IsSet(data.CreateMethod) THEN data.CreateMethod
             ELSE IF IsSet(data.Method) THEN data.Method
             ELSE "POST"
      [] operation = "read" ->
             IF IsSet(data.ReadMethod) THEN data.ReadMethod
             ELSE IF IsSet(data.Method) /\ data.Method \in {"GET", "POST", "HEAD"}
                  THEN data.Method
             ELSE "GET"
      [] operation = "update" ->
             IF IsSet(data.UpdateMethod) THEN data.UpdateMethod
             ELSE IF IsSet(data.Method) /\ data.Method = "PATCH" THEN "PATCH"
             ELSE "PUT"
      [] operation = "delete" ->
             IF IsSet(data.DeleteMethod) THEN data.DeleteMethod
             ELSE IF IsSet(data.Method) /\ data.Method \in {"DELETE", "POST", "PUT"}
                  THEN data.Method
             ELSE "DELETE"
      [] OTHER -> "GET"

OnFailureAction(cfg) == IF cfg.OnFailure # "null" THEN cfg.OnFailure ELSE "fail"
OnSuccessAction(cfg) == IF cfg.OnSuccess # "null" THEN cfg.OnSuccess ELSE "continue"

\* rest_resource.go:254-310
checkStatusCode(statusCode, cfg) ==
    IF ~cfg.FailOnStatus.null /\ statusCode \in cfg.FailOnStatus.elems
    THEN [isSuccess |-> FALSE, action |-> OnFailureAction(cfg)]
    ELSE IF ~cfg.ExpectedStatus.null
    THEN IF statusCode \in cfg.ExpectedStatus.elems
         THEN [isSuccess |-> TRUE, action |-> OnSuccessAction(cfg)]
         ELSE [isSuccess |-> FALSE, action |-> OnFailureAction(cfg)]
    ELSE IF statusCode >= 200 /\ statusCode < 300
    THEN [isSuccess |-> TRUE, action |-> OnSuccessAction(cfg)]
    ELSE [isSuccess |-> FALSE, action |-> OnFailureAction(cfg)]

\* rest_resource.go:313-329
shouldRetryOnStatus(statusCode, cfg) ==
    \/ ~cfg.RetryOnStatus.null /\ statusCode \in cfg.RetryOnStatus.elems
    \/ statusCode = 429
    \/ statusCode >= 500 /\ statusCode < 600

\* the tests at the heads of Read and Update (rest_resource.go:598, 604, 720)
IsNotFound_Never(statusCode) == FALSE

IsNotFound(statusCode) == statusCode = 404

Is2xx(statusCode) == statusCode >= 200 /\ statusCode < 300

\* Delete's acceptableStatusCodes (rest_resource.go:856)
acceptableStatusCodes == {200, 202, 204, 404}

NoTime == 0
NoStatus == 0
UnknownDoc == [t |-> "unknown"]

\* parsed["id"].(string) of the response body (rest_resource.go:441-451,
\* 1028-1029): the top-level string member id, or "" when there is none
ResponseId(body) ==
    LET parsed == UnmarshalMap(body)
    IN  IF /\ body.t # "empty"
           /\ ~parsed.err
           /\ "id" \in DOMAIN parsed.m
           /\ parsed.m["id"].t = "string"
        THEN [ok |-> TRUE, id |-> parsed.m["id"].s]
        ELSE [ok |-> FALSE, id |-> ""]

\* fmt.Sprintf("%s_%s", endpoint, name)
FallbackId == Endpoint \o "_" \o Name

\* rest_resource.go:375-463 (status, body, timestamps, id)
processResponse(response, data, time) ==
    [data EXCEPT
        !.StatusCode = response.StatusCode,
        !.Response = response.Body,
        !.CreatedAt = IF data.CreatedAt = NoTime THEN time ELSE data.CreatedAt,
        !.LastUpdated = time,
        !.Id = IF IsSet(data.Id) THEN data.Id
               ELSE IF ResponseId(response.Body).ok
               THEN ResponseId(response.Body).id
               ELSE FallbackId]

\* rest_resource.go:1026-1050; data.Id.ValueString() of a null id is ""
updateComputedFields(data, respBody) ==
    [data EXCEPT
        !.Id = IF ResponseId(respBody).ok THEN ResponseId(respBody).id
               ELSE data.Id,
        !.DriftDetection =
            IF data.DriftDetection = "null" THEN "true" ELSE data.DriftDetection]

\* data.DriftDetection as performDriftDetection reads it: ValueBool() of an
\* unknown value is false
DriftFlag(v) == IF v = "unknown" THEN "false" ELSE v

\* the plan of a create or of an update: the configured values, and every
\* computed attribute that is not configured is unknown
Planned(v) == IF v = "null" THEN "unknown" ELSE v

PlanOf(cfg) ==
    [exists |-> TRUE, Id |-> "unknown",
     Method |-> Planned(cfg.Method), CreateMethod |-> Planned(cfg.CreateMethod),
     ReadMethod |-> Planned(cfg.ReadMethod), UpdateMethod |-> Planned(cfg.UpdateMethod),
     DeleteMethod |-> Planned(cfg.DeleteMethod),
     Response |-> UnknownDoc, StatusCode |-> NoStatus,
     CreatedAt |-> NoTime, LastUpdated |-> NoTime,
     DriftDetection |-> Planned(cfg.DriftDetection)]

\* resp.State.Set: the state keeps no unknown value (it becomes null)
Stored(v) == IF v = "unknown" THEN "null" ELSE v

StateSet(data) ==
    [data EXCEPT !.Id = Stored(data.Id), !.Method = Stored(data.Method),
                 !.CreateMethod = Stored(data.CreateMethod),
                 !.ReadMethod = Stored(data.ReadMethod),
                 !.UpdateMethod = Stored(data.UpdateMethod),
                 !.DeleteMethod = Stored(data.DeleteMethod),
                 !.DriftDetection = Stored(data.DriftDetection)]

(***************************************************************************)
(* Inputs of the resource: the resource blocks tried, and what the server  *)
(* answers.                                                                *)
(***************************************************************************)
MaxOps == 3

Person == JObject([k \in {"name"} |-> JString("John")])

ResourceConfigs ==
    {BaseResource,
     [BaseResource EXCEPT !.Method = "POST"],
     [BaseResource EXCEPT !.Method = "PUT"],
     [BaseResource EXCEPT !.Method = "PATCH"],
     [BaseResource EXCEPT !.Method = "POST", !.ReadMethod = "HEAD",
                          !.DeleteMethod = "POST"],
     [BaseResource EXCEPT !.Method = "POST", !.CreateMethod = "PUT",
                          !.UpdateMethod = "POST"],
     [BaseResource EXCEPT !.RetryOnStatus = List({409}), !.OnFailure = "retry"],
     [BaseResource EXCEPT !.RetryOnStatus = List({409})],
     [BaseResource EXCEPT !.ExpectedStatus = List({201})],
     [BaseResource EXCEPT !.ExpectedStatus = List({200, 409}),
                          !.FailOnStatus = List({200})],
     [BaseResource EXCEPT !.FailOnStatus = List({201})],
     [BaseResource EXCEPT !.OnFailure = "continue"],
     [BaseResource EXCEPT !.Body = Person],
     [BaseResource EXCEPT !.Body = Tags("a")],
     [BaseResource EXCEPT !.Body = Tags("a"), !.DriftDetection = "false"],
     [BaseResource EXCEPT !.RetryAttempts = 1]}

Created == JObject([k \in {"id", "name"} |->
               IF k = "id" THEN JString("srv-1") ELSE JString("John")])

\* an answer whose id is the empty string
EmptyId == JObject([k \in {"id", "name"} |->
               IF k = "id" THEN JString("") ELSE JString("John")])

\* what one attempt can get from the server: [StatusCode, Body]
ServerResponses ==
    {[StatusCode |-> 200, Body |-> b] : b \in {NoDoc, Created, Tags("a")}}
    \cup {[StatusCode |-> 201, Body |-> Created],
          [StatusCode |-> 201, Body |-> EmptyId],
          [StatusCode |-> 404, Body |-> NoDoc],
          [StatusCode |-> 409, Body |-> NoDoc],
          [StatusCode |-> 503, Body |-> NoDoc]}

(***************************************************************************)
(* client.Do as the handlers see it (client.go:246-351, without the timing *)
(* and the body reader): an attempt that fails in transport or gets a      *)
(* retryable status is repeated while attempts remain; otherwise Do        *)
(* returns the response; an error is returned when the attempts are used   *)
(* up or the context is cancelled.                                         *)
(***************************************************************************)
ResourceInit ==
    /\ ClientInit /\ c = NewRestClient([RetryAttempts |-> 0, Timeout |-> 0])
    /\ DriftIdle
    /\ OtherIdle
    /\ resourceConfig \in ResourceConfigs
    /\ state = NoState
    /\ op = "none"
    /\ rpc = "idle"
    /\ model = NoState
    /\ request = NoRequest
    /\ reqAttempt = 0
    /\ lastResp = NoResponse
    /\ diags = "none"
    /\ now = 0

\* buildRequestOptions (rest_resource.go:332-372) and its copies in Update
\* and Delete, then client.Do's choice of the retry count
RequestOptions(method) ==
    [Method |-> method,
     Retries |-> DoRetries(c, [Retries |-> resourceConfig.RetryAttempts])]

Call(operation, data) ==
    /\ rpc = "idle"
    /\ now < MaxOps
    /\ op' = operation
    /\ rpc' = "call"
    /\ model' = data
    /\ request' = RequestOptions(resolveMethodForOperation(data, operation))
    /\ reqAttempt' = 0
    /\ lastResp' = NoResponse
    /\ diags' = "none"
    /\ now' = now + 1
    /\ UNCHANGED <<resourceConfig, state>>
    /\ UNCHANGED <<progVars, obsVars, driftVars, otherVars>>

\* one attempt is over (it failed in transport or got a status that
\* IsRetryableStatusCode accepts) and another one follows
RetryAttempt ==
    /\ rpc = "call"
    /\ AttemptsRemain(reqAttempt, request.Retries)
    /\ reqAttempt' = reqAttempt + 1
    /\ UNCHANGED <<resourceConfig, state, op, rpc, model, request, lastResp,
                   diags, now>>
    /\ UNCHANGED <<progVars, obsVars, driftVars, otherVars>>

\* what client.Do can return from the current attempt
Returns ==
    {[err |-> TRUE, StatusCode |-> NoStatus, Body |-> NoDoc, attempt |-> reqAttempt]}
    \cup {[err |-> FALSE, StatusCode |-> r.StatusCode, Body |-> r.Body,
           attempt |-> reqAttempt] :
             r \in {x \in ServerResponses :
                       ~(/\ IsRetryableStatusCode(x.StatusCode)
                         /\ AttemptsRemain(reqAttempt, request.Retries))}}

\* the handler `operation` leaves client.Do with r and ends
Ends(operation, r, outcome_, newState) ==
    /\ rpc = "call"
    /\ op = operation
    /\ rpc' = "idle"
    /\ lastResp' = r
    /\ diags' = outcome_
    /\ state' = newState
    /\ UNCHANGED <<resourceConfig, op, model, request, reqAttempt, now>>
    /\ UNCHANGED <<progVars, obsVars, driftVars, otherVars>>

(***************************************************************************)
(* The handlers (rest_resource.go:465-878).  Create and Update read the    *)
(* plan, Read and Delete the state.                                        *)
(***************************************************************************)
Create == ~state.exists /\ Call("create", PlanOf(resourceConfig))

Read == state.exists /\ Call("read", state)

Update == state.exists /\ Call("update", PlanOf(resourceConfig))

Delete == state.exists /\ Call("delete", state)

\* rest_resource.go:478-481
CreateData ==
    [model EXCEPT !.CreateMethod = request.Method,
                  !.Method = IF model.Method = "null" THEN request.Method
                             ELSE model.Method]

\* rest_resource.go:498-553
CreateEnds ==
    /\ rpc = "call" /\ op = "create"
    /\ \E r \in Returns :
        LET check == checkStatusCode(r.StatusCode, resourceConfig)
        IN  IF r.err THEN Ends("create", r, "error", state)
            ELSE IF ~check.isSuccess /\ check.action = "retry"
                    /\ shouldRetryOnStatus(r.StatusCode, resourceConfig)
            THEN Ends("create", r, "retryable", state)
            ELSE IF ~check.isSuccess /\ check.action # "continue"
            THEN Ends("create", r, "error", state)
            ELSE Ends("create", r, "ok",
                      StateSet(processResponse(r, CreateData, now)))

\* rest_resource.go:612-633: the 2xx part of Read
ReadSaves(r) ==
    LET data == processResponse(r, [model EXCEPT !.ReadMethod = request.Method], now)
        report == performDriftDetection(DriftFlag(data.DriftDetection),
                                        resourceConfig.IgnoreFields,
                                        resourceConfig.Body, r.Body)
    IN  IF report = "panic" THEN Ends("read", r, "panic", state)
        ELSE IF report \in {"computed", "nodrift", "drift"}
        THEN Ends("read", r, "ok", StateSet(updateComputedFields(data, r.Body)))
        ELSE Ends("read", r, "ok", StateSet(data))

\* rest_resource.go:588-634
ReadEnds ==
    /\ rpc = "call" /\ op = "read"
    /\ \E r \in Returns :
        IF r.err THEN Ends("read", r, "error", state)
        ELSE IF IsNotFound(r.StatusCode) THEN Ends("read", r, "removed", NoState)
        ELSE IF ~Is2xx(r.StatusCode) THEN Ends("read", r, "error", state)
        ELSE ReadSaves(r)

\* rest_resource.go:710-742
UpdateEnds ==
    /\ rpc = "call" /\ op = "update"
    /\ \E r \in Returns :
        IF r.err \/ ~Is2xx(r.StatusCode) THEN Ends("update", r, "error", state)
        ELSE Ends("update", r, "ok",
                  StateSet(processResponse(r,
                      [model EXCEPT !.UpdateMethod = request.Method], now)))

\* rest_resource.go:846-878; a Delete without error drops the state
DeleteEnds ==
    /\ rpc = "call" /\ op = "delete"
    /\ \E r \in Returns :
        IF r.err \/ r.StatusCode \notin acceptableStatusCodes
        THEN Ends("delete", r, "error", state)
        ELSE Ends("delete", r, "ok", NoState)

ResourceNext ==
    \/ Create
    \/ Read
    \/ Update
    \/ Delete
    \/ RetryAttempt
    \/ CreateEnds
    \/ ReadEnds
    \/ UpdateEnds
    \/ DeleteEnds

ResourceSpec == ResourceInit /\ [][ResourceNext]_vars

(***************************************************************************)
(* Properties of the resource.                                             *)
(***************************************************************************)
\* the handler `operation` has ended and client.Do had returned a response
EndedWithResponse(operation) ==
    op = operation /\ rpc = "idle" /\ lastResp.attempt >= 0 /\ ~lastResp.err

\* C11: drift detection is advisory: whatever the expected body and the
\* response of a 2xx Read, the Read completes without error and saves the
\* state.
C11_DriftIsAdvisory ==
    (EndedWithResponse("read") /\ Is2xx(lastResp.StatusCode)) =>
        /\ diags = "ok"
        /\ state.exists
        /\ state.Response = lastResp.Body
        /\ state.StatusCode = lastResp.StatusCode

CreateVerbs == {"POST", "PUT", "PATCH"}

\* C16: a resource with a legacy create verb and neither read_method nor
\* delete_method sends every Read with GET and the Delete with DELETE.
C16_CreateVerbOnlyCreates ==
    (/\ resourceConfig.Method \in CreateVerbs
     /\ resourceConfig.ReadMethod = "null"
     /\ resourceConfig.DeleteMethod = "null"
     /\ rpc = "call") =>
        /\ op = "read" => request.Method = "GET"
        /\ op = "delete" => request.Method = "DELETE"

ExplicitMethod(data, operation) ==
    CASE operation = "create" -> data.CreateMethod
      [] operation = "read" -> data.ReadMethod
      [] operation = "update" -> data.UpdateMethod
      [] operation = "delete" -> data.DeleteMethod

\* the values of the legacy field each operation accepts
LegacyValidFor ==
    [create |-> {"POST", "PUT", "PATCH"}, read |-> {"GET", "POST", "HEAD"},
     update |-> {"PATCH"}, delete |-> {"DELETE", "POST", "PUT"}]

HardcodedDefault ==
    [create |-> "POST", read |-> "GET", update |-> "PUT", delete |-> "DELETE"]

Given(v) == v # "null" /\ v # "unknown"

C18_RetryOnStatusRetries ==
    (/\ op # "none" /\ rpc = "idle" /\ lastResp.attempt >= 0 /\ ~lastResp.err
     /\ ~resourceConfig.RetryOnStatus.null
     /\ lastResp.StatusCode \in resourceConfig.RetryOnStatus.elems)
        => lastResp.attempt >= request.Retries - 1

\* the handler went on with the response as a success
TreatedAsSuccess == diags \in {"ok", "panic"}

\* C19: with the default actions, the response of a create, read or update
\* is a success if and only if its status is in expected_status and not in
\* fail_on_status; without either list, if and only if it is 2xx.
C19_ExpectedStatusDecides ==
    (/\ \E o \in {"create", "read", "update"} : EndedWithResponse(o)
     /\ resourceConfig.OnSuccess = "null" /\ resourceConfig.OnFailure = "null") =>
        /\ ~resourceConfig.ExpectedStatus.null =>
               (TreatedAsSuccess <=>
                   /\ lastResp.StatusCode \in resourceConfig.ExpectedStatus.elems
                   /\ lastResp.StatusCode \notin resourceConfig.FailOnStatus.elems)
        /\ (resourceConfig.ExpectedStatus.null /\ resourceConfig.FailOnStatus.null) =>
               (TreatedAsSuccess <=> Is2xx(lastResp.StatusCode))

ReadReturned == op = "read" /\ rpc = "call" /\ rpc' = "idle" /\ ~lastResp'.err

C28_RequestsWithinRetries ==
    pc = "done" =>
        /\ nAttempts >= 1
        /\ nAttempts <= retries
        /\ result.err.wrap = "exhausted" => result.err.kind # "nil"

\* C29: the body of a response is read while the attempt's context is still
\* live: the attempt context is cancelled only after the body read.
C29_BodyReadUnderLiveContext ==
    pc = "read" => ~attemptCtxDone


(***************************************************************************)
(* Termination of a call (client.go:246-351).  The steps of the call are   *)
(* taken when they can be: httpClient.Do and io.ReadAll return, the time   *)
(* of a backoff delay passes, and a select with a ready case takes one.    *)
(* The caller is free never to start a call and never to cancel.           *)
(***************************************************************************)
Fairness ==
    /\ WF_vars(StartAttempt)
    /\ WF_vars(AwaitResponse)
    /\ WF_vars(ReadBodyOk \/ ReadBodyFail)
    /\ WF_vars(TimerFire)
    /\ WF_vars(BackoffElapsed \/ BackoffCancelled)

LiveSpec == Init /\ [][Next]_vars /\ Fairness

\* the four ways a call ends
ReturnedResponse == result.resp # NilResp /\ result.err = NilErr
ReturnedExhausted == result.resp = NilResp /\ result.err.wrap = "exhausted"
ReturnedBodyReadErr ==
    result.resp = NilResp /\ result.err.wrap = "none" /\ result.err.kind = "bodyread"
ReturnedCtxErr == result.resp = NilResp /\ result.err = CtxErr

TerminalOutcomes ==
    {o \in {"response", "exhausted", "bodyread", "canceled"} :
        \/ o = "response" /\ ReturnedResponse
        \/ o = "exhausted" /\ ReturnedExhausted
        \/ o = "bodyread" /\ ReturnedBodyReadErr
        \/ o = "canceled" /\ ReturnedCtxErr}

\* C30: every call that was started ends, with exactly one of a Response, a
\* retries-exhausted error, a body-read error or the cancellation error; it
\* does not attempt or sleep for ever.
C30_CallTerminates ==
    (pc # "idle") ~> (pc = "done" /\ Cardinality(TerminalOutcomes) = 1)

\* a call that slept twice and ended at its third attempt
C30_Witness ==
    /\ pc = "done"
    /\ nAttempts = 3
    /\ nSleeps = 2
    /\ Cardinality(TerminalOutcomes) = 1


(***************************************************************************)
(* Concurrent calls (client.go:168-351).  Every Do call runs in its own    *)
(* goroutine; what the calls share is the *RestClient, which Do and        *)
(* executeWithRetry only read, and the connection pool of its transport.   *)
(* The loop of executeWithRetry is written here as functions on the locals *)
(* of one call, one function per event of the call.                        *)
(***************************************************************************)
\* variant: Do keeps the per-call overrides in the client
ClientAfterDo_KeepsOverride(client, options) ==
    [client EXCEPT !.retries = DoRetries(client, options),
                   !.timeout = DoTimeout(client, options)]

\* Do copies c.timeout and c.retries into locals and assigns no field of c
\* (client.go:190-200)
ClientAfterDo(client, options) == client

\* return r, e
Returned(call, r, e) ==
    [call EXCEPT !.pc = "done", !.result = [resp |-> r, err |-> e]]

\* the loop test for the value a of the loop variable (client.go:249, 350)
NextIteration(call, a) ==
    IF a < call.retries
    THEN [call EXCEPT !.attempt = a, !.pc = "send"]
    ELSE Returned([call EXCEPT !.attempt = a], NilResp,
                  ExhaustedErr(call.lastErr))

\* Do (client.go:168-204)
Started(client, options) ==
    NextIteration([NoCall EXCEPT !.retries = DoRetries(client, options),
                                 !.timeout = DoTimeout(client, options)], 0)

\* httpClient.Do is entered (client.go:257)
Sent(call) == [call EXCEPT !.pc = "await", !.nAttempts = @ + 1]

\* the backoff select is entered
Sleeping(call) ==
    [call EXCEPT !.pc = "sleep", !.delay = calculateBackoff(call.attempt)]

\* a failed attempt: backoff while attempts remain, else continue
\* (client.go:271-283, 300-310)
Failed(call) ==
    IF AttemptsRemain(call.attempt, call.retries)
    THEN Sleeping(call)
    ELSE NextIteration(call, call.attempt + 1)

\* what an attempt receives: an error of httpClient.Do, or a response whose
\* body can or cannot be read
AttemptEvents ==
    {[err |-> k, StatusCode |-> 0, readOk |-> FALSE] :
        k \in {"refused", "timeout", "canceled"}}
    \cup {[err |-> "none", StatusCode |-> st, readOk |-> ok] :
            st \in {200, 404, 503}, ok \in BOOLEAN}

\* httpClient.Do has returned (client.go:257-348)
Received(call, ev) ==
    IF ev.err # "none"
    THEN LET failed == [call EXCEPT !.lastErr =
                            RecordErr(@, TransportErr(ev.err, call.attempt, 0))]
         IN  IF CtxErrNonNil(call.ctxDone)
             THEN Returned(failed, NilResp, CtxErr)
             ELSE Failed(failed)
    ELSE IF ~ev.readOk
    THEN LET failed == [call EXCEPT !.lastErr =
                            RecordErr(@, BodyReadErr(call.attempt))]
         IN  IF IsSuccessStatus(ev.StatusCode)
             THEN Returned(failed, NilResp, failed.lastErr)
             ELSE Failed(failed)
    ELSE IF IsRetryableStatusCode(ev.StatusCode)
            /\ AttemptsRemain(call.attempt, call.retries)
    THEN Sleeping([call EXCEPT !.lastErr =
                       RecordErr(@, StatusErr(call.attempt, ev.StatusCode))])
    ELSE Returned(call,
                  NewResponse([StatusCode |-> ev.StatusCode, Body |-> "payload"],
                              "payload"),
                  NilErr)

\* case <-time.After(backoffDelay): continue
Elapsed(call) == NextIteration(call, call.attempt + 1)

\* case <-ctx.Done(): return nil, ctx.Err()
Interrupted(call) == Returned(call, NilResp, CtxErr)

\* the caller cancels the context of the call
Cancelled(call) == [call EXCEPT !.ctxDone = TRUE]

\* call i takes a step that turns its locals into `after`; the same call
\* running alone takes the step that gives `afterAlone`
CallStep(i, after, afterAlone) ==
    /\ calls' = [calls EXCEPT ![i] = after]
    /\ alone' = [alone EXCEPT ![i] = afterAlone]
    /\ UNCHANGED clientConfig
    /\ UNCHANGED <<progVars, obsVars, driftVars, resVars, importVars, projVars,
                   provVars>>

CallDo(i) ==
    /\ calls[i].pc = "idle"
    /\ \E t \in OptTimeouts, r \in OptRetries :
          LET options == [Body |-> <<>>, Timeout |-> t, Retries |-> r]
          IN  /\ CallStep(i, Started(restClient, options),
                          Started(NewRestClient(clientConfig), options))
              /\ restClient' = ClientAfterDo(restClient, options)
    /\ UNCHANGED idleConns

\* the transport takes an idle connection when there is one and dials
\* otherwise
CallSend(i) ==
    /\ calls[i].pc = "send"
    /\ CallStep(i, Sent(calls[i]), Sent(alone[i]))
    /\ idleConns' = IF idleConns > 0 THEN idleConns - 1 ELSE idleConns
    /\ UNCHANGED restClient

\* the connection goes back to the pool when the body was read to its end
CallReceive(i) ==
    /\ calls[i].pc = "await"
    /\ \E ev \in AttemptEvents :
          /\ calls[i].ctxDone <=> ev.err = "canceled"
          /\ CallStep(i, Received(calls[i], ev), Received(alone[i], ev))
          /\ idleConns' = IF ev.err = "none" /\ ev.readOk
                          THEN idleConns + 1 ELSE idleConns
    /\ UNCHANGED restClient

CallElapsed(i) ==
    /\ calls[i].pc = "sleep"
    /\ CallStep(i, Elapsed(calls[i]), Elapsed(alone[i]))
    /\ UNCHANGED <<restClient, idleConns>>

CallInterrupted(i) ==
    /\ calls[i].pc = "sleep"
    /\ calls[i].ctxDone
    /\ CallStep(i, Interrupted(calls[i]), Interrupted(alone[i]))
    /\ UNCHANGED <<restClient, idleConns>>

CallCancel(i) ==
    /\ calls[i].pc \in {"send", "await", "sleep"}
    /\ ~calls[i].ctxDone
    /\ CallStep(i, Cancelled(calls[i]), Cancelled(alone[i]))
    /\ UNCHANGED <<restClient, idleConns>>

\* the provider configurations with the default or an unusable retry count
ConcurrentConfigs == {cfg \in Configs : cfg.RetryAttempts <= 0}

ConcurrentInit ==
    /\ ClientInit /\ c = NewRestClient([RetryAttempts |-> 0, Timeout |-> 0])
    /\ DriftIdle
    /\ ResourceIdle
    /\ clientConfig \in ConcurrentConfigs
    /\ restClient = NewRestClient(clientConfig)
    /\ idleConns = 0
    /\ calls = [i \in CallIds |-> NoCall]
    /\ alone = [i \in CallIds |-> NoCall]
    /\ ImportIdle
    /\ ProjectIdle
    /\ ProviderIdle

ConcurrentNext ==
    \E i \in CallIds :
        \/ CallDo(i)
        \/ CallSend(i)
        \/ CallReceive(i)
        \/ CallElapsed(i)
        \/ CallInterrupted(i)
        \/ CallCancel(i)

ConcurrentSpec == ConcurrentInit /\ [][ConcurrentNext]_vars

C21_IdSetOnceByCreate ==
    [][/\ (op = "create" /\ rpc = "call" /\ diags' = "ok") =>
            /\ IsSet(state'.Id)
            /\ state'.Id # ""
            /\ state'.Id = IF ResponseId(lastResp'.Body).ok
                           THEN ResponseId(lastResp'.Body).id
                           ELSE FallbackId
       /\ (op = "read" /\ rpc = "call" /\ diags' = "ok") =>
            processResponse(lastResp', model, now).Id = state.Id
       /\ (op = "update" /\ rpc = "call" /\ diags' = "ok") =>
            state'.Id = state.Id]_vars


(***************************************************************************)
(* ImportState (rest_resource.go:745-773) and the endpoint of the Read     *)
(* after it (rest_resource.go:565-580).  Strings are sequences of          *)
(* characters.                                                             *)
(***************************************************************************)
\* the longest import ID drawn
MaxIdLen == 5
IdChars == {"/", "a", "b"}
ImportIDs == UNION {[1 .. n -> IdChars] : n \in 0 .. MaxIdLen}

\* strings.Split(s, "/"): the pieces between the separators, empty ones
\* included; a string without separator is its only piece
RECURSIVE Split(_)
Split(str) ==
    IF \A i \in 1 .. Len(str) : str[i] # "/"
    THEN <<str>>
    ELSE LET at == CHOOSE i \in 1 .. Len(str) :
                       str[i] = "/" /\ \A j \in 1 .. i - 1 : str[j] # "/"
         IN  <<SubSeq(str, 1, at - 1)>> \o Split(SubSeq(str, at + 1, Len(str)))

\* variant: the pieces are joined without separator
RECURSIVE Join_NoSeparator(_)
Join_NoSeparator(parts) ==
    IF Len(parts) = 0 THEN <<>>
    ELSE Head(parts) \o Join_NoSeparator(Tail(parts))

\* strings.Join(parts, "/")
RECURSIVE Join(_)
Join(parts) ==
    IF Len(parts) = 0 THEN <<>>
    ELSE IF Len(parts) = 1 THEN Head(parts)
    ELSE Head(parts) \o <<"/">> \o Join(Tail(parts))

\* rest_resource.go:747-766: the state ImportState leaves, and its
\* diagnostics
ImportStateOf(id) ==
    LET parts == Split(id)
        name == parts[Len(parts)]
        endpoint == <<"/">> \o Join(SubSeq(parts, 1, Len(parts) - 1))
    IN  IF Len(parts) < 2
        THEN [diags |-> "error", state |-> EmptyState]
        ELSE [diags |-> "ok",
              state |-> [EmptyState EXCEPT
                            !["endpoint"] = StringValue(endpoint),
                            !["name"] = StringValue(name),
                            !["id"] = StringValue(id),
                            !["method"] = StringValue(<<"P", "O", "S", "T">>)]]

\* rest_resource.go:565-569: the endpoint Read requests
ReadEndpointOf(data) ==
    IF ~data["name"].null
    THEN data["endpoint"].v \o <<"/">> \o data["name"].v
    ELSE data["endpoint"].v

ImportState ==
    /\ importDiags = "none"
    /\ \E id \in ImportIDs :
          /\ importID' = id
          /\ importState' = ImportStateOf(id).state
          /\ importDiags' = ImportStateOf(id).diags
    /\ UNCHANGED readEndpoint
    /\ UNCHANGED <<progVars, obsVars, driftVars, resVars, concVars, projVars,
                   provVars>>

\* the Read terraform runs on the imported state
ReadImported ==
    /\ importDiags = "ok"
    /\ readEndpoint.null
    /\ readEndpoint' = StringValue(ReadEndpointOf(importState))
    /\ UNCHANGED <<importID, importState, importDiags>>
    /\ UNCHANGED <<progVars, obsVars, driftVars, resVars, concVars, projVars,
                   provVars>>

ImportInit ==
    /\ ClientInit /\ c = NewRestClient([RetryAttempts |-> 0, Timeout |-> 0])
    /\ DriftIdle
    /\ ResourceIdle
    /\ ConcurrentIdle
    /\ ImportIdle
    /\ ProjectIdle
    /\ ProviderIdle

ImportNext == ImportState \/ ReadImported

ImportSpec == ImportInit /\ [][ImportNext]_vars

\* the positions of '/' in an ID
Slashes(id) == {i \in 1 .. Len(id) : id[i] = "/"}
LastSlash(id) == CHOOSE i \in Slashes(id) : \A j \in Slashes(id) : j <= i

\* C25: an import ID with a '/' is split at its last '/': the name is what
\* follows it and the endpoint is '/' and what precedes it, and the Read
\* after the import requests '/' and the ID; an ID without '/' is rejected
\* with an error and no state attribute is set.
C25_ImportSplitsAtLastSlash ==
    importDiags # "none" =>
        IF Slashes(importID) = {}
        THEN /\ importDiags = "error"
             /\ importState = EmptyState
             /\ readEndpoint.null
        ELSE /\ importDiags = "ok"
             /\ importState["name"] =
                    StringValue(SubSeq(importID, LastSlash(importID) + 1,
                                       Len(importID)))
             /\ importState["endpoint"] =
                    StringValue(<<"/">> \o SubSeq(importID, 1,
                                                  LastSlash(importID) - 1))
             /\ ~readEndpoint.null =>
                    readEndpoint.v = <<"/">> \o importID

\* an endpoint of two segments and a name, imported and read
C25_Witness ==
    /\ importID = <<"a", "/", "b", "/", "a">>
    /\ importDiags = "ok"
    /\ importState["endpoint"].v = <<"/", "a", "/", "b">>
    /\ importState["name"].v = <<"a">>
    /\ readEndpoint.v = <<"/", "a", "/", "b", "/", "a">>


(***************************************************************************)
(* response_data (rest_resource.go:397-430): the top-level members of a    *)
(* JSON-object body as strings.  A string is kept as the value it stands   *)
(* for: plain characters, the decimal digits of an integer, or JSON text.  *)
(***************************************************************************)
StringText(str) == [t |-> "chars", s |-> str]
\* the digits of the integer n, with a minus sign when neg
IntegerText(neg, n) == [t |-> "digits", neg |-> neg, n |-> n]
JSONText(doc) == [t |-> "json", doc |-> doc]

\* fmt.Sprintf("%.0f", v): the nearest integer, a tie going to the even one
Sprintf0f(v) ==
    LET floor == Shr64(v.mag, 1)
        tie == v.mag[1] % 2 = 1
    IN  IntegerText(v.neg,
                    IF tie /\ floor[1] % 2 = 1 THEN Add64(floor, One64) ELSE floor)

\* fmt.Sprintf("%t", v)
Sprintft(v) == StringText(IF v.b THEN "true" ELSE "false")

\* json.Marshal of a decoded value: a float64 is written in its shortest
\* form, without fraction when it is whole
RECURSIVE Marshal(_)
Marshal(v) ==
    CASE v.t = "nil" -> JNull
      [] v.t = "string" -> JString(v.s)
      [] v.t = "bool" -> JBool(v.b)
      [] v.t = "float64" ->
            JNumber(v.neg, v.mag, IF v.mag[1] % 2 = 0 THEN "int" ELSE "frac")
      [] v.t = "slice" -> JArray([i \in DOMAIN v.a |-> Marshal(v.a[i])])
      [] v.t = "map" -> JObject([k \in DOMAIN v.m |-> Marshal(v.m[k])])

\* the switch of rest_resource.go:404-417
ResponseDataEntry(value) ==
    CASE value.t = "string" -> StringText(value.s)
      [] value.t = "float64" -> Sprintf0f(value)
      [] value.t = "bool" -> Sprintft(value)
      [] OTHER -> JSONText(Marshal(value))

\* variant: a null member is kept, as JSON text
ResponseData_NullAsText(body) ==
    LET parsed == UnmarshalMap(body)
    IN  IF body.t = "empty" \/ parsed.err THEN <<>>
        ELSE [key \in DOMAIN parsed.m |-> ResponseDataEntry(parsed.m[key])]

\* rest_resource.go:397-420
ResponseData(body) ==
    LET parsed == UnmarshalMap(body)
    IN  IF body.t = "empty" \/ parsed.err THEN <<>>
        ELSE [key \in {k \in DOMAIN parsed.m : parsed.m[k] # Nil} |->
                 ResponseDataEntry(parsed.m[key])]

\* the members the bodies are built from: "42", true, false, 42, 1.0, 1.5,
\* 2^53 + 1, null, {"a":1} and ["a",1.0]
ProjectKeys == {"id", "name", "active", "meta"}
ProjectValues ==
    {JString("42"), JBool(TRUE), JBool(FALSE),
     JNumber(FALSE, Int64(84), "int"), JNumber(TRUE, Int64(2), "frac"),
     JNumber(FALSE, Int64(3), "frac"),
     JNumber(FALSE, Shl64(Add64(TwoTo53, One64), 1), "int"),
     JNull,
     JObject([k \in {"a"} |-> JNumber(FALSE, Int64(2), "int")]),
     JArray(<<JString("a"), JNumber(FALSE, Int64(2), "frac")>>)}
ProjectBodies ==
    {JObject(m) : m \in UNION {[K -> ProjectValues] : K \in SUBSET ProjectKeys}}
    \cup {NoDoc, JNull, JText("not json"), JString("42"),
          JArray(<<JObject([k \in {"id"} |-> JString("42")])>>)}

\* processResponse on one response
Project ==
    /\ projDiags = "none"
    /\ \E body \in ProjectBodies :
          /\ projBody' = body
          /\ projData' = ResponseData(body)
    /\ projDiags' = "ok"
    /\ UNCHANGED <<progVars, obsVars, driftVars, resVars, concVars, importVars,
                 provVars>>

ProjectInit ==
    /\ ClientInit /\ c = NewRestClient([RetryAttempts |-> 0, Timeout |-> 0])
    /\ DriftIdle
    /\ ResourceIdle
    /\ ConcurrentIdle
    /\ ImportIdle
    /\ ProjectIdle
    /\ ProviderIdle

ProjectNext == Project

ProjectSpec == ProjectInit /\ [][ProjectNext]_vars

\* a number written in the body that is whole
IsWhole(doc) == doc.t = "number" /\ doc.mag[1] % 2 = 0

\* the entry of a member that is not null is the string the claim names
EntryAsClaimed(doc, entry) ==
    CASE doc.t = "jstring" -> entry = StringText(doc.s)
      [] doc.t = "jbool" -> entry = StringText(IF doc.b THEN "true" ELSE "false")
      [] doc.t = "number" ->
            IsWhole(doc) =>
                /\ entry.t = "digits"
                /\ BitLen(doc.mag) <= MantissaBits =>
                       entry = IntegerText(doc.neg, Shr64(doc.mag, 1))
      [] doc.t \in {"array", "object"} ->
            entry.t = "json" /\ Decode(entry.doc) = Decode(doc)
      [] OTHER -> FALSE

\* the flat map has one entry, as claimed, for each key of `keys` and no
\* other entry; a body that is no JSON object gives the empty map, no error
ProjectsKeys(keys) ==
    /\ projDiags = "ok"
    /\ IF projBody.t = "object"
       THEN /\ DOMAIN projData = keys
            /\ \A k \in keys : EntryAsClaimed(projBody.m[k], projData[k])
       ELSE projData = <<>>

\* C26, as claimed: every top-level key of a JSON-object body has one string
\* entry in the flat map (strings unchanged, booleans "true"/"false", whole
\* numbers integer-formatted, objects and arrays re-serialized); a body that
\* is not a JSON object gives an empty map and no error.
C26_ProjectEveryKey ==
    projDiags # "none" =>
        ProjectsKeys(IF projBody.t = "object" THEN DOMAIN projBody.m ELSE {})

\* C26, amended: every top-level key whose value is not null has that one
\* entry, and a key whose value is null has no entry.
C26_ProjectNonNullKeys ==
    projDiags # "none" =>
        ProjectsKeys(IF projBody.t = "object"
                     THEN {k \in DOMAIN projBody.m : projBody.m[k] # JNull}
                     ELSE {})

\* {"id":"42","name":null,"active":true,"meta":{"a":1}} gives three entries
C26_Witness ==
    /\ projDiags = "ok"
    /\ projBody.t = "object"
    /\ DOMAIN projBody.m = ProjectKeys
    /\ projBody.m["name"] = JNull
    /\ DOMAIN projData = {"id", "active", "meta"}
    /\ projData["id"] = StringText("42")
    /\ projData["active"] = StringText("true")
    /\ projData["meta"].t = "json"

\* ---------------------------------------------------------------------------
\* Provider configuration and the construction of the client
\* (provider.go:124-290, client.go:62-146, client.go:403-455)
\* ---------------------------------------------------------------------------

\* a provider attribute that is null, and one that is set to v
Absent == [null |-> TRUE, v |-> ""]
Known(v) == [null |-> FALSE, v |-> v]
NullBool == [null |-> TRUE, v |-> FALSE]

\* A URL is a sequence of pieces: the scheme with the host, then the
\* characters after it.
Host == "https://api.example.com"

\* parsedURL.Scheme of url.Parse(config.BaseURL)
Scheme(baseURL) == IF baseURL # <<>> /\ baseURL[1] = Host THEN "https" ELSE ""

\* the base URLs a client is built with
BaseURLs ==
    {<<Host>>, <<Host, "/">>, <<Host, "/", "/">>, <<Host, "/", "v1">>,
     <<Host, "/", "v1", "/">>}

\* PEM text, a file path or a base64 bundle: one that holds usable key
\* material and one that does not
Material == {"good", "bad"}

\* tls.X509KeyPair succeeds
X509KeyPair(certPEM, keyPEM) == certPEM = "good" /\ keyPEM = "good"

\* tls.LoadX509KeyPair succeeds
LoadX509KeyPair(certFile, keyFile) == certFile = "good" /\ keyFile = "good"

\* base64.StdEncoding.DecodeString and os.ReadFile succeed
DecodeString(bundle) == bundle = "good"
ReadFile(file) == file = "good"

\* parsePKCS12 succeeds: pkcs12.Decode accepts the data under the password
parsePKCS12(data, password) == data = "good" /\ password = "right"

\* the error to return, and what tlsConfig.Certificates was set from
TLSFailed(message) == [err |-> message, Certificates |-> "none"]
TLSFrom(branch) == [err |-> "none", Certificates |-> branch]

configureTLSAuth_FallsThrough(config) ==
    IF /\ config.ClientCert # "" /\ config.ClientKey # ""
       /\ X509KeyPair(config.ClientCert, config.ClientKey)
    THEN TLSFrom("inline PEM")
    ELSE IF /\ config.ClientCertFile # "" /\ config.ClientKeyFile # ""
            /\ LoadX509KeyPair(config.ClientCertFile, config.ClientKeyFile)
    THEN TLSFrom("files")
    ELSE IF /\ config.PKCS12Bundle # ""
            /\ DecodeString(config.PKCS12Bundle)
            /\ parsePKCS12(config.PKCS12Bundle, config.PKCS12Password)
    THEN TLSFrom("PKCS12 bundle")
    ELSE IF /\ config.PKCS12File # ""
            /\ ReadFile(config.PKCS12File)
            /\ parsePKCS12(config.PKCS12File, config.PKCS12Password)
    THEN TLSFrom("PKCS12 file")
    ELSE TLSFrom("none")

configureTLSAuth(config) ==
    IF config.ClientCert # "" /\ config.ClientKey # ""
    THEN IF ~X509KeyPair(config.ClientCert, config.ClientKey)
         THEN TLSFailed("failed to parse client certificate and key")
         ELSE TLSFrom("inline PEM")
    ELSE IF config.ClientCertFile # "" /\ config.ClientKeyFile # ""
    THEN IF ~LoadX509KeyPair(config.ClientCertFile, config.ClientKeyFile)
         THEN TLSFailed("failed to load client certificate files")
         ELSE TLSFrom("files")
    ELSE IF config.PKCS12Bundle # ""
    THEN IF ~DecodeString(config.PKCS12Bundle)
         THEN TLSFailed("failed to decode PKCS12 bundle")
         ELSE IF ~parsePKCS12(config.PKCS12Bundle, config.PKCS12Password)
         THEN TLSFailed("failed to parse PKCS12 bundle")
         ELSE TLSFrom("PKCS12 bundle")
    ELSE IF config.PKCS12File # ""
    THEN IF ~ReadFile(config.PKCS12File)
         THEN TLSFailed("failed to read PKCS12 file")
         ELSE IF ~parsePKCS12(config.PKCS12File, config.PKCS12Password)
         THEN TLSFailed("failed to parse PKCS12 file")
         ELSE TLSFrom("PKCS12 file")
    \* No certificate authentication configured
    ELSE TLSFrom("none")

\* strings.TrimRight(s, "/")
RECURSIVE TrimRight(_)
TrimRight(s) ==
    IF s # <<>> /\ s[Len(s)] = "/" THEN TrimRight(SubSeq(s, 1, Len(s) - 1))
    ELSE s

\* NewRestClient as far as the base URL, TLS and the token header go: the
\* client it returns (none on an error) and the error
NewRestClientAuth(config) ==
    IF config.BaseURL = <<>>
    THEN [client |-> <<>>, err |-> "base URL is required"]
    ELSE IF Scheme(config.BaseURL) = ""
    THEN [client |-> <<>>, err |-> "base URL must include a scheme"]
    ELSE LET tlsConfig == configureTLSAuth(config)
         IN  IF tlsConfig.err # "none"
             THEN [client |-> <<>>,
                   err |-> "failed to configure TLS authentication"]
             ELSE [client |->
                     <<[baseURL |-> TrimRight(config.BaseURL),
                        InsecureSkipVerify |-> config.Insecure,
                        Certificates |-> tlsConfig.Certificates,
                        headers |->
                            IF config.Token # "" /\ config.TokenHeader # ""
                            THEN <<config.TokenHeader, config.Token>>
                            ELSE <<>>]>>,
                   err |-> "none"]

\* a client.Config that names a base URL and nothing else
BareConfig(baseURL, insecure) ==
    [BaseURL |-> baseURL, Token |-> "", TokenHeader |-> "",
     ClientCert |-> "", ClientKey |-> "",
     ClientCertFile |-> "", ClientKeyFile |-> "",
     PKCS12Bundle |-> "", PKCS12File |-> "", PKCS12Password |-> "",
     Insecure |-> insecure]

\* the provider blocks Configure is given
ProviderConfigs ==
    [APIURL : {NullString, StringValue(<<Host>>),
               StringValue(<<"api.example.com">>)},
     APIToken : {Absent, Known(""), Known("secret")},
     ClientCert : {Absent} \cup {Known(m) : m \in Material},
     ClientKey : {Absent} \cup {Known(m) : m \in Material},
     ClientCertFile : {Absent} \cup {Known(m) : m \in Material},
     ClientKeyFile : {Absent} \cup {Known(m) : m \in Material},
     PKCS12Bundle : {Absent} \cup {Known(m) : m \in Material},
     PKCS12File : {Absent} \cup {Known(m) : m \in Material},
     PKCS12Password : {Absent, Known("right"), Known("wrong")},
     Insecure : {NullBool, Known(TRUE), Known(FALSE)}]

\* the client.Configs NewRestClient is given by other callers
ClientConfigs ==
    [BaseURL : {<<>>, <<"api.example.com">>, <<Host>>},
     Token : {"", "secret"}, TokenHeader : {"Authorization"},
     ClientCert : {""} \cup Material, ClientKey : {""} \cup Material,
     ClientCertFile : {""} \cup Material, ClientKeyFile : {""} \cup Material,
     PKCS12Bundle : {""} \cup Material, PKCS12File : {""} \cup Material,
     PKCS12Password : {"right", "wrong"},
     Insecure : BOOLEAN]

\* 1 when the condition holds
Counted(b) == IF b THEN 1 ELSE 0

authMethods_PKCS12Uncounted(config) ==
    Counted(~config.APIToken.null)
    + Counted((~config.ClientCert.null /\ ~config.ClientKey.null)
              \/ (~config.ClientCertFile.null /\ ~config.ClientKeyFile.null))

\* the authentication methods Configure counts
authMethods(config) ==
    Counted(~config.APIToken.null)
    \* Certificate authentication (either inline or file-based)
    + Counted((~config.ClientCert.null /\ ~config.ClientKey.null)
              \/ (~config.ClientCertFile.null /\ ~config.ClientKeyFile.null))
    \* PKCS12 authentication (either inline or file-based)
    + Counted(~config.PKCS12Bundle.null \/ ~config.PKCS12File.null)

apiHeader == "Authorization"

\* the client.Config Configure fills in: the first method that is set
ClientConfigOf(config) ==
    LET insecure == IF ~config.Insecure.null THEN config.Insecure.v ELSE FALSE
        base == BareConfig(config.APIURL.v, insecure)
        password == IF ~config.PKCS12Password.null
                    THEN config.PKCS12Password.v ELSE ""
    IN  IF ~config.APIToken.null
        THEN [base EXCEPT !.Token = config.APIToken.v,
                          !.TokenHeader = apiHeader]
        ELSE IF ~config.ClientCert.null /\ ~config.ClientKey.null
        THEN [base EXCEPT !.ClientCert = config.ClientCert.v,
                          !.ClientKey = config.ClientKey.v]
        ELSE IF ~config.ClientCertFile.null /\ ~config.ClientKeyFile.null
        THEN [base EXCEPT !.ClientCertFile = config.ClientCertFile.v,
                          !.ClientKeyFile = config.ClientKeyFile.v]
        ELSE IF ~config.PKCS12Bundle.null
        THEN [base EXCEPT !.PKCS12Bundle = config.PKCS12Bundle.v,
                          !.PKCS12Password = password]
        ELSE IF ~config.PKCS12File.null
        THEN [base EXCEPT !.PKCS12File = config.PKCS12File.v,
                          !.PKCS12Password = password]
        ELSE base

\* Configure stopped with an error diagnostic before it built a client.Config
Refused(summary) ==
    [diags |-> summary, handed |-> <<>>, client |-> <<>>, err |-> "none"]

\* restProvider.Configure: the diagnostic, the client.Config handed to
\* NewRestClient, the client stored for the resources
ConfigureOf(config) ==
    IF config.APIURL.null THEN Refused("Missing Configuration")
    ELSE IF authMethods(config) = 0 THEN Refused("Missing Authentication")
    ELSE IF authMethods(config) > 1
    THEN Refused("Multiple Authentication Methods")
    ELSE IF \/ ~config.ClientCert.null /\ config.ClientKey.null
            \/ config.ClientCert.null /\ ~config.ClientKey.null
    THEN Refused("Incomplete Certificate Authentication")
    ELSE IF \/ ~config.ClientCertFile.null /\ config.ClientKeyFile.null
            \/ config.ClientCertFile.null /\ ~config.ClientKeyFile.null
    THEN Refused("Incomplete Certificate Authentication")
    ELSE LET made == NewRestClientAuth(ClientConfigOf(config))
         IN  [diags |-> IF made.err # "none"
                        THEN "Client Configuration Error" ELSE "ok",
              handed |-> <<ClientConfigOf(config)>>,
              client |-> made.client,
              err |-> made.err]

\* terraform configures the provider
Configure ==
    /\ ProviderIdle
    /\ \E config \in ProviderConfigs :
        /\ providerData' = <<config>>
        /\ handedConfig' = ConfigureOf(config).handed
        /\ newClient' = ConfigureOf(config).client
        /\ newErr' = ConfigureOf(config).err
        /\ provDiags' = ConfigureOf(config).diags
    /\ UNCHANGED <<urlCall, urlResult>>
    /\ UNCHANGED <<progVars, obsVars, driftVars, resVars, concVars,
                   importVars, projVars>>

\* another caller builds a client
Construct ==
    /\ ProviderIdle
    /\ \E config \in ClientConfigs :
        /\ handedConfig' = <<config>>
        /\ newClient' = NewRestClientAuth(config).client
        /\ newErr' = NewRestClientAuth(config).err
    /\ UNCHANGED <<providerData, provDiags, urlCall, urlResult>>
    /\ UNCHANGED <<progVars, obsVars, driftVars, resVars, concVars,
                   importVars, projVars>>

\* ---------------------------------------------------------------------------
\* buildURL (client.go:207-230)
\* ---------------------------------------------------------------------------

MaxEndpointLen == 3
EndpointChars == {"/", "u"}
Endpoints ==
    UNION {[1..n -> EndpointChars] : n \in 0..MaxEndpointLen}

\* the keys in the order url.Values.Encode writes them, and the values
QueryKeys == <<"limit", "offset">>
QueryValues == {"10", "a b"}
QueryParams ==
    UNION {[keys -> QueryValues] :
             keys \in SUBSET {QueryKeys[i] : i \in DOMAIN QueryKeys}}

\* url.QueryEscape: a space becomes a plus sign
QueryEscape(text) == IF text = "a b" THEN "a+b" ELSE text

\* url.Values.Encode: key=value pairs, sorted by key, joined with &
RECURSIVE EncodeFrom(_, _)
EncodeFrom(values, i) ==
    IF i > Len(QueryKeys) THEN <<>>
    ELSE LET rest == EncodeFrom(values, i + 1)
         IN  IF QueryKeys[i] \notin DOMAIN values THEN rest
             ELSE <<QueryEscape(QueryKeys[i]), "=",
                    QueryEscape(values[QueryKeys[i]])>>
                  \o (IF rest = <<>> THEN <<>> ELSE <<"&">> \o rest)

Encode(values) == EncodeFrom(values, 1)

\* URL.String of a URL with this path and this RawQuery
URLString(parsedURL) ==
    parsedURL.Path
    \o (IF parsedURL.RawQuery = <<>> THEN <<>>
        ELSE <<"?">> \o parsedURL.RawQuery)

TrimPrefix_Keep(endpoint) == endpoint

\* strings.TrimPrefix(endpoint, "/")
TrimPrefix(endpoint) ==
    IF endpoint # <<>> /\ endpoint[1] = "/" THEN Tail(endpoint) ELSE endpoint

buildURL(client, endpoint, queryParams) ==
    LET fullURL == client.baseURL \o <<"/">> \o TrimPrefix(endpoint)
        parsedURL == [Path |-> fullURL, RawQuery |-> <<>>]
    IN  [url |-> IF Cardinality(DOMAIN queryParams) > 0
                 THEN URLString([parsedURL EXCEPT
                                    !.RawQuery = Encode(queryParams)])
                 ELSE URLString(parsedURL),
         err |-> "none"]

\* a client is built for a base URL and asked for the URL of an endpoint
BuildURL ==
    /\ ProviderIdle
    /\ \E baseURL \in BaseURLs, endpoint \in Endpoints,
          queryParams \in QueryParams :
        LET config == BareConfig(baseURL, FALSE)
        IN  /\ handedConfig' = <<config>>
            /\ newClient' = NewRestClientAuth(config).client
            /\ newErr' = NewRestClientAuth(config).err
            /\ urlCall' = <<[endpoint |-> endpoint,
                             queryParams |-> queryParams]>>
            /\ urlResult' = <<buildURL(NewRestClientAuth(config).client[1],
                                       endpoint, queryParams)>>
    /\ UNCHANGED <<providerData, provDiags>>
    /\ UNCHANGED <<progVars, obsVars, driftVars, resVars, concVars,
                   importVars, projVars>>

ProviderInit ==
    /\ ClientInit /\ c = NewRestClient([RetryAttempts |-> 0, Timeout |-> 0])
    /\ DriftIdle
    /\ ResourceIdle
    /\ ConcurrentIdle
    /\ ImportIdle
    /\ ProjectIdle
    /\ ProviderIdle

ProviderNext == Configure \/ Construct \/ BuildURL

ProviderSpec == ProviderInit /\ [][ProviderNext]_vars

\* the provider block's five ways to authenticate that are supplied
Variants(config) ==
    {v \in {"token", "inline PEM", "files", "PKCS12 bundle", "PKCS12 file"} :
        \/ v = "token" /\ ~config.APIToken.null
        \/ v = "inline PEM" /\ ~config.ClientCert.null /\ ~config.ClientKey.null
        \/ v = "files" /\ ~config.ClientCertFile.null
                       /\ ~config.ClientKeyFile.null
        \/ v = "PKCS12 bundle" /\ ~config.PKCS12Bundle.null
        \/ v = "PKCS12 file" /\ ~config.PKCS12File.null}

\* the three methods of the provider block that are supplied
Methods(config) ==
    {m \in {"token", "client certificate", "PKCS12"} :
        \/ m = "token" /\ "token" \in Variants(config)
        \/ m = "client certificate"
             /\ Variants(config) \cap {"inline PEM", "files"} # {}
        \/ m = "PKCS12"
             /\ Variants(config) \cap {"PKCS12 bundle", "PKCS12 file"} # {}}

\* the variants a client.Config has populated
Populated(config) ==
    {v \in {"token", "inline PEM", "files", "PKCS12 bundle", "PKCS12 file"} :
        \/ v = "token" /\ config.Token # ""
        \/ v = "inline PEM" /\ config.ClientCert # "" /\ config.ClientKey # ""
        \/ v = "files" /\ config.ClientCertFile # ""
                       /\ config.ClientKeyFile # ""
        \/ v = "PKCS12 bundle" /\ config.PKCS12Bundle # ""
        \/ v = "PKCS12 file" /\ config.PKCS12File # ""}

\* Configure ended with an error diagnostic and stored no client
Rejected == provDiags \notin {"none", "ok"} /\ newClient = <<>>

\* C22 as stated: a provider block that supplies more than one of the five
\* variants (token, inline PEM cert+key, cert/key file paths, inline PKCS12
\* bundle, PKCS12 file) is rejected, and no client.Config handed to
\* NewRestClient has more than one variant populated.
C22_FiveVariantsExclusive ==
    providerData # <<>> =>
        /\ Cardinality(Variants(providerData[1])) > 1 => Rejected
        /\ \A i \in DOMAIN handedConfig :
              Cardinality(Populated(handedConfig[i])) <= 1

\* C22: a provider block that supplies more than one of the three methods
\* (token; client certificate, inline or as files; PKCS12, inline or as file)
\* is rejected before NewRestClient is called, and no client.Config handed to
\* NewRestClient has more than one of the five variants populated.
C22_ThreeMethodsExclusive ==
    providerData # <<>> =>
        /\ Cardinality(Methods(providerData[1])) > 1 =>
              Rejected /\ handedConfig = <<>>
        /\ \A i \in DOMAIN handedConfig :
              Cardinality(Populated(handedConfig[i])) <= 1

\* a token together with a PKCS12 bundle is refused, and so is nothing handed
C22_Witness ==
    /\ providerData # <<>>
    /\ Methods(providerData[1]) = {"token", "PKCS12"}
    /\ provDiags = "Multiple Authentication Methods"
    /\ handedConfig = <<>>

\* the branches of the TLS setup in their order, and whether a client.Config
\* matches one
Branches == <<"inline PEM", "files", "PKCS12 bundle", "PKCS12 file">>

Matches(config, branch) == branch \in Populated(config)

\* the first branch the client.Config matches, "none" when it matches none
FirstMatching(config) ==
    IF \E i \in DOMAIN Branches : Matches(config, Branches[i])
    THEN Branches[CHOOSE i \in DOMAIN Branches :
                     /\ Matches(config, Branches[i])
                     /\ \A j \in 1..(i - 1) : ~Matches(config, Branches[j])]
    ELSE "none"

\* the material of the branch is usable
Usable(config, branch) ==
    CASE branch = "inline PEM" ->
            X509KeyPair(config.ClientCert, config.ClientKey)
      [] branch = "files" ->
            LoadX509KeyPair(config.ClientCertFile, config.ClientKeyFile)
      [] branch = "PKCS12 bundle" ->
            /\ DecodeString(config.PKCS12Bundle)
            /\ parsePKCS12(config.PKCS12Bundle, config.PKCS12Password)
      [] branch = "PKCS12 file" ->
            /\ ReadFile(config.PKCS12File)
            /\ parsePKCS12(config.PKCS12File, config.PKCS12Password)
      [] OTHER -> TRUE

\* C23: for a client.Config with a valid base URL the TLS setup is decided by
\* the first matching branch (inline PEM, files, inline PKCS12, PKCS12 file,
\* none): the certificates come from that branch alone; when its material is
\* unusable NewRestClient returns an error and no client, whatever the later
\* branches hold; and a client that is returned has InsecureSkipVerify equal to
\* the Insecure flag.
C23_FirstMatchingBranchDecides ==
    \A i \in DOMAIN handedConfig :
        LET config == handedConfig[i]
            branch == FirstMatching(config)
        IN  Scheme(config.BaseURL) # "" =>
                IF Usable(config, branch)
                THEN /\ newErr = "none"
                     /\ Len(newClient) = 1
                     /\ newClient[1].Certificates = branch
                     /\ newClient[1].InsecureSkipVerify = config.Insecure
                ELSE /\ newErr = "failed to configure TLS authentication"
                     /\ newClient = <<>>

\* unusable inline PEM beside usable certificate files: no client
C23_Witness ==
    /\ Len(handedConfig) = 1
    /\ Populated(handedConfig[1]) = {"inline PEM", "files", "PKCS12 file"}
    /\ ~Usable(handedConfig[1], "inline PEM")
    /\ Usable(handedConfig[1], "files")
    /\ handedConfig[1].Insecure
    /\ newErr = "failed to configure TLS authentication"
    /\ newClient = <<>>

\* the base URL without the slashes at its end
Core(baseURL) ==
    SubSeq(baseURL, 1,
           CHOOSE n \in 0..Len(baseURL) :
              /\ n = 0 \/ baseURL[n] # "/"
              /\ \A i \in (n + 1)..Len(baseURL) : baseURL[i] = "/")

\* where the query string of a URL starts: at its first question mark
QueryStart(url) ==
    IF \E i \in DOMAIN url : url[i] = "?"
    THEN CHOOSE i \in DOMAIN url :
            url[i] = "?" /\ \A j \in 1..(i - 1) : url[j] # "?"
    ELSE Len(url) + 1

PathOf(url) == SubSeq(url, 1, QueryStart(url) - 1)
QueryOf(url) == SubSeq(url, QueryStart(url) + 1, Len(url))

\* the query string has the pair key=value between its separators
HasParam(query, key, value) ==
    \E i \in 1..(Len(query) - 2) :
        /\ query[i] = QueryEscape(key)
        /\ query[i + 1] = "="
        /\ query[i + 2] = QueryEscape(value)
        /\ i = 1 \/ query[i - 1] = "&"
        /\ i + 2 = Len(query) \/ query[i + 3] = "&"

\* C24: buildURL returns no error; the URL up to its query string is the base
\* URL (without the slashes at its end), one slash, and the endpoint without
\* one leading slash; and the query string has every supplied parameter as
\* key=value.
C24_BuildURLJoinsAndKeepsParams ==
    \A i \in DOMAIN urlResult :
        LET call == urlCall[i]
            url == urlResult[i].url
        IN  /\ urlResult[i].err = "none"
            /\ PathOf(url) =
                 Core(handedConfig[i].BaseURL) \o <<"/">>
                 \o (IF call.endpoint # <<>> /\ Head(call.endpoint) = "/"
                     THEN Tail(call.endpoint) ELSE call.endpoint)
            /\ \A key \in DOMAIN call.queryParams :
                  HasParam(QueryOf(url), key, call.queryParams[key])

\* a base URL that ends with a slash, an endpoint that starts with two, and
\* two parameters
C24_Witness ==
    /\ Len(urlResult) = 1
    /\ handedConfig[1].BaseURL = <<Host, "/", "v1", "/">>
    /\ urlCall[1].endpoint = <<"/", "/", "u">>
    /\ urlResult[1].url = <<Host, "/", "v1", "/", "/", "u", "?",
                            "limit", "=", "10", "&", "offset", "=", "a+b">>

====
